---- MODULE Spec2Model ----
(***************************************************************************)
(* Model of src/index.js: the WhatsApp webhook orchestrator                *)
(* (POST /whatsapp-webhook), the media fetcher (fetchMetaMediaBytes), the  *)
(* transcription path (preprocessAudio, transcribeAudioWithWhisper), the   *)
(* classifiers and extractors, the caption and image reconciler            *)
(* (POST /analyze-image-with-text) and extractCaloriesFromAnalysis.        *)
(* External collaborators (Graph API, inference, /log-analysis, the file   *)
(* system) answer nondeterministically: every call either returns or       *)
(* raises. Numbers are counted in thousandths.                             *)
(***************************************************************************)
EXTENDS Integers, Sequences, FiniteSets, TLC

\* ---------------------------------------------------------------- bounds
MaxTasks == 2
MaxRetriesBound == 2
MaxStamp == 2
MaxItems == 2

\* ------------------------------------------------------ program constants
DefaultMaxRetries == 3
DefaultBaseDelay == 300
ExcerptLen == 240

\* An optional value is a sequence of length 0 (null/undefined) or 1.
null == <<>>
Some(x) == <<x>>
Min(a, b) == IF a <= b THEN a ELSE b
\* the least element of a set of numbers
FirstOf(set) == CHOOSE x \in set : \A y \in set : x <= y
\* the sequences of a sequence, joined
RECURSIVE Concat(_)
Concat(seqs) == IF seqs = <<>> THEN <<>> ELSE Head(seqs) \o Concat(Tail(seqs))

\* ----------------------------------------------------------------- inputs
NoFrom == "none"
Senders == {"s1", "s2"}
Froms == Senders \cup {NoFrom}
Keywords == {"crave", "what should i eat", "summary"}
\* message.image, message.audio, message.audio with the voice flag
MediaFields == {"image", "audio", "voice"}
MimeTypes == {"image/jpeg", "audio/ogg", "application/octet-stream"}
TranscriptLens == {0, 5, 300}

\* A webhook message: exactly the fields the routing code reads.
Messages ==
  [kind : {"media"}, media : MediaFields, id : BOOLEAN, body : {{}}, title : {""}]
  \cup [kind : {"text"}, media : {"none"}, id : {FALSE}, body : SUBSET Keywords, title : {""}]
  \cup [kind : {"interactive"}, media : {"none"}, id : {FALSE}, body : {{}}, title : {"", "L"}]
  \cup [kind : {"other"}, media : {"none"}, id : {FALSE}, body : {{}}, title : {""}]

NoMessage == [kind |-> "none", media |-> "none", id |-> FALSE, body |-> {}, title |-> ""]

\* Payloads: req.body without entry, a payload whose traversal throws, or a
\* list of messages (their senders; the content is read when the task runs).
Payloads ==
  { [entry |-> e, froms |-> <<>>] : e \in {"missing", "malformed"} }
  \cup { [entry |-> "ok", froms |-> f] : f \in UNION { [1..n -> Froms] : n \in 0..MaxTasks } }

\* fetchMetaMediaBytes(mediaId, opts)
OptsSet ==
  [maxRetries : {null} \cup { Some(n) : n \in 0..MaxRetriesBound },
   retryDelayMs : {null, Some(0), Some(100)}]
DefaultOpts == [maxRetries |-> null, retryDelayMs |-> null]

\* Analysis records, by the fields the orchestrator reads: the type tag, the
\* details of the food and workout sub-records, the transcript length.
Analysis(t, f, w, n) == [type |-> t, food |-> f, workout |-> w, transcript |-> n]
SubShapes == {"absent", "empty", "items"}
HasDetails(sub) == sub = "items"
CompositeRecords ==
  { Analysis("none", f, w, n) : f \in SubShapes, w \in SubShapes, n \in TranscriptLens }
TypedRecords == { Analysis(t, "absent", "absent", 0) : t \in {"none", "food", "workout"} }
\* analyzeAudioWithGPT always fills in out.food and out.workout.
PrimaryRecords ==
  { a \in CompositeRecords :
      /\ a.food # "absent" /\ a.workout # "absent"
      /\ (HasDetails(a.food) \/ HasDetails(a.workout)) => a.transcript = 5 }
\* processAndLogAudio returns whatever /analyze-audio answered.
FallbackRecords ==
  { a \in CompositeRecords :
      /\ ~(a.food = "absent" /\ a.workout = "absent")
      /\ a.transcript = 5 }
  \cup TypedRecords

NoReply == [parts |-> <<>>, excerpt |-> 0]

VARIABLES
  incoming,          \* req.body
  pc,                \* position of the webhook handler
  tasks,             \* tasks[] collected from the payload (senders)
  ackIdx,            \* position of the acknowledgement loop
  acked,             \* the Set acked
  ackLog,            \* acknowledgement sends attempted: [to, ok]
  res,               \* statuses passed to res.status(..).send()
  idx,               \* position of the task loop
  started,           \* tasks taken up by the loop
  outcome,           \* per task: how its processing ended
  message,           \* t.message of the task being processed
  branch,            \* routing decision for it
  site,              \* the metaSendText call about to run
  sends,             \* sends attempted for the current message: [site, ok]
  logs,              \* hand-overs to /log-analysis for it: [by, ok]
  failed,            \* a stage of the current message has failed
  debugFile,         \* the /tmp/wa-voice-* file of the current message
  primary,           \* analyzeAudioWithGPT: "none", "returned", "raised"
  fallback,          \* processAndLogAudio: "none", "returned", "raised"
  analysis,          \* image/text/interactive: null or Some(record)
  combinedAnalysis,  \* audio: null or Some(record)
  reply,             \* the reply text built for the message
  contentType,       \* MIME type of the fetched media
  opts,              \* fetchMetaMediaBytes: opts
  fpc,               \* fetchMetaMediaBytes: position
  attempt,           \* fetchMetaMediaBytes: attempt
  lastError,         \* fetchMetaMediaBytes: lastError
  mime,              \* mime_type of the media object
  tries,             \* tryDownload calls made: [n, useAuth, ok]
  delays,            \* waits inserted by the backoff
  fetchErr           \* the error fetchMetaMediaBytes threw

\* transcribeAudioWithWhisper: the calls in flight and the files under /tmp
VARIABLES
  now,               \* Date.now(), in milliseconds
  tpc,               \* per call: position
  stamp,             \* per call: stamp
  files,             \* /tmp: path -> content, "absent" when there is no file
  pathForWhisper,    \* per call: what preprocessAudio returned
  pre,               \* per call: how preprocessAudio went
  exit               \* per call: how the call ended

\* The functions called on their own: the arguments and what came back
VARIABLES
  clsIn,             \* classifyFoodOrWorkoutFrom*: the input and the inference answer
  cls,               \* classifyFoodOrWorkoutFrom*: null or Some(result)
  answer,            \* analyze*WithChatGPT: the classification and the inference answer
  out,               \* analyze*WithChatGPT: null or Some(result)
  captionResp,       \* /analyze-image-with-text: the answer for the caption
  visionResp,        \* /analyze-image-with-text: the answer for the image
  result,            \* /analyze-image-with-text: null or Some(response)
  record,            \* extractCaloriesFromAnalysis: the argument
  kcal,              \* extractCaloriesFromAnalysis: null or Some(result)
  totalCalories,     \* /log-analysis: null or Some(totalCalories)
  composeIn,         \* buildReplyForAnalysis: the argument
  composeOut,        \* buildReplyForAnalysis: null or Some(reply)
  workoutIn,         \* analyzeAudioWithGPT: the answers and the transcript
  workoutOut         \* analyzeAudioWithGPT: null or Some(out.workout)

audioVars == <<now, tpc, stamp, files, pathForWhisper, pre, exit>>
clsVars == <<clsIn, cls>>
extractVars == <<answer, out>>
reconcileVars == <<captionResp, visionResp, result>>
energyVars == <<record, kcal, totalCalories>>
composeVars == <<composeIn, composeOut>>
workoutVars == <<workoutIn, workoutOut>>
moreVars == <<composeVars, workoutVars>>
pureVars == <<clsVars, extractVars, reconcileVars, energyVars, moreVars>>
extVars == <<audioVars, pureVars>>

hookRest == <<incoming, tasks, ackIdx, acked, ackLog, res, idx, started, outcome>>
hookVars == <<pc, hookRest>>
taskVars == <<message, branch, site, sends, logs, failed, debugFile, primary,
              fallback, analysis, combinedAnalysis, reply, contentType>>
fetchVars == <<opts, fpc, attempt, lastError, mime, tries, delays, fetchErr>>
vars == <<hookVars, taskVars, fetchVars, extVars>>

\* The overlapping calls of transcribeAudioWithWhisper that are followed.
Calls == {1, 2}
Stamps == 1..MaxStamp
\* `/tmp/${stamp}-raw.audio` and `/tmp/${stamp}-cleaned.wav`
RawPath(s) == <<s, "raw.audio">>
CleanedPath(s) == <<s, "cleaned.wav">>
Paths == { RawPath(s) : s \in Stamps } \cup { CleanedPath(s) : s \in Stamps }

NoPre == [ffmpeg |-> "none", returned |-> null, rawKept |-> TRUE]
NoExit == [path |-> "none", left |-> {}, unlinkOk |-> TRUE]

\* No call of transcribeAudioWithWhisper has been made, /tmp holds no file of it.
TranscribeIdle ==
  /\ now = 1
  /\ tpc = [c \in Calls |-> "idle"]
  /\ stamp = [c \in Calls |-> 0]
  /\ files = [p \in Paths |-> "absent"]
  /\ pathForWhisper = [c \in Calls |-> null]
  /\ pre = [c \in Calls |-> NoPre]
  /\ exit = [c \in Calls |-> NoExit]

\* No call of the classifiers, the extractors, the reconciler, the resolver.
ClassifyIdle == clsIn = null /\ cls = null
ExtractIdle == answer = null /\ out = null
ReconcileIdle == captionResp = null /\ visionResp = null /\ result = null
EnergyIdle == record = null /\ kcal = null /\ totalCalories = null
ComposeIdle == composeIn = null /\ composeOut = null
WorkoutIdle == workoutIn = null /\ workoutOut = null
MoreIdle == ComposeIdle /\ WorkoutIdle

ExtIdle ==
  TranscribeIdle /\ ClassifyIdle /\ ExtractIdle /\ ReconcileIdle /\ EnergyIdle /\ MoreIdle

\* ======================================================================
\* fetchMetaMediaBytes
\* ======================================================================
maxRetries == IF opts.maxRetries # null THEN opts.maxRetries[1] ELSE DefaultMaxRetries
baseDelay == IF opts.retryDelayMs # null THEN opts.retryDelayMs[1] ELSE DefaultBaseDelay

UseAuth_late(a) == a > 1
UseAuth(a) == a > 0

LoopCond_short(a, n) == a < n
LoopCond(a, n) == a <= n

BackoffDelay(base, a) == base * (2 ^ a)

FetchIdle ==
  /\ fpc = "idle" /\ attempt = 0 /\ lastError = "none" /\ mime = "none"
  /\ tries = <<>> /\ delays = <<>> /\ fetchErr = "none"

\* 1) the media object lookup: url and mime_type, or an error
FetchMediaObject ==
  /\ fpc = "meta"
  /\ \/ \E m \in MimeTypes : mime' = m /\ fpc' = "loop" /\ fetchErr' = "none"
     \/ mime' = mime /\ fpc' = "thrown" /\ fetchErr' = "media object lookup failed"
     \/ mime' = mime /\ fpc' = "thrown" /\ fetchErr' = "no url"
  /\ UNCHANGED <<opts, attempt, lastError, tries, delays>>
  /\ UNCHANGED <<hookVars, taskVars>>
  /\ UNCHANGED extVars

\* 2) one pass of the while loop up to the await of the download
TryDownload ==
  /\ fpc = "loop" /\ LoopCond(attempt, maxRetries)
  /\ \E resp \in {"2xx", "non2xx", "exception"} :
       /\ tries' = Append(tries, [n |-> attempt, useAuth |-> UseAuth(attempt), ok |-> resp = "2xx"])
       /\ IF resp = "2xx"
            THEN fpc' = "returned" /\ lastError' = lastError
            ELSE fpc' = "backoff" /\ lastError' = resp
  /\ UNCHANGED <<opts, attempt, mime, delays, fetchErr>>
  /\ UNCHANGED <<hookVars, taskVars>>
  /\ UNCHANGED extVars

\* attempt++; delay = baseDelay * 2^attempt; wait
Backoff ==
  /\ fpc = "backoff"
  /\ attempt' = attempt + 1
  /\ delays' = Append(delays, BackoffDelay(baseDelay, attempt'))
  /\ fpc' = "loop"
  /\ UNCHANGED <<opts, lastError, mime, tries, fetchErr>>
  /\ UNCHANGED <<hookVars, taskVars>>
  /\ UNCHANGED extVars

\* all retries failed
GiveUp ==
  /\ fpc = "loop" /\ ~LoopCond(attempt, maxRetries)
  /\ fpc' = "thrown" /\ fetchErr' = "Failed to download media after retries."
  /\ UNCHANGED <<opts, attempt, lastError, mime, tries, delays>>
  /\ UNCHANGED <<hookVars, taskVars>>
  /\ UNCHANGED extVars

FetchNext == FetchMediaObject \/ TryDownload \/ Backoff \/ GiveUp

TaskIdle ==
  /\ message = NoMessage /\ branch = "none" /\ site = "none" /\ sends = <<>>
  /\ logs = <<>> /\ failed = FALSE /\ debugFile = "none" /\ primary = "none"
  /\ fallback = "none" /\ analysis = null /\ combinedAnalysis = null
  /\ reply = NoReply
  /\ contentType = "none"

\* fetchMetaMediaBytes called on its own, with every opts of OptsSet
InitFetch ==
  /\ incoming = [entry |-> "missing", froms |-> <<>>]
  /\ pc = "fetch" /\ tasks = <<>> /\ ackIdx = 0 /\ acked = {} /\ ackLog = <<>>
  /\ res = <<>> /\ idx = 0 /\ started = {} /\ outcome = <<>>
  /\ TaskIdle
  /\ opts \in OptsSet
  /\ fpc = "meta" /\ attempt = 0 /\ lastError = "none" /\ mime = "none"
  /\ tries = <<>> /\ delays = <<>> /\ fetchErr = "none"
  /\ ExtIdle

SpecFetch == InitFetch /\ [][FetchNext]_vars

\* ======================================================================
\* POST /whatsapp-webhook
\* ======================================================================

\* buildReplyForAnalysis: the fixed apology, the workout reply or the food
\* reply, decided by the type tag alone.
buildReplyForAnalysis(a) ==
  IF a = null \/ a[1].type = "none" THEN "Sorry, I couldn't understand that."
  ELSE IF a[1].type = "workout" THEN "Workout:"
  ELSE "Food:"

\* combinedAnalysis.food / combinedAnalysis.workout, typed as the schema says
FoodSub(a) == IF a.food = "absent" THEN null ELSE Some(Analysis("food", "absent", "absent", 0))
WorkoutSub(a) == IF a.workout = "absent" THEN null ELSE Some(Analysis("workout", "absent", "absent", 0))

\* String(transcript).slice(0,240), empty when there is no transcript
TranscriptExcerpt(a) == Min(a.transcript, ExcerptLen)

\* 4) Build reply
SelectReply_swapped(a) ==
  IF a.food # "absent" \/ a.workout # "absent"
    THEN IF HasDetails(a.food) /\ ~HasDetails(a.workout)
           THEN [parts |-> <<buildReplyForAnalysis(WorkoutSub(a))>>, excerpt |-> 0]
         ELSE IF HasDetails(a.workout) /\ ~HasDetails(a.food)
           THEN [parts |-> <<buildReplyForAnalysis(FoodSub(a))>>, excerpt |-> 0]
         ELSE IF HasDetails(a.food) /\ HasDetails(a.workout)
           THEN [parts |-> <<buildReplyForAnalysis(WorkoutSub(a)),
                             buildReplyForAnalysis(FoodSub(a))>>, excerpt |-> 0]
         ELSE [parts |-> <<"Sorry, I couldn't confidently extract">>,
               excerpt |-> TranscriptExcerpt(a)]
  ELSE IF a.type # "none"
    THEN [parts |-> <<buildReplyForAnalysis(Some(a))>>, excerpt |-> 0]
  ELSE [parts |-> <<"unexpected format">>, excerpt |-> 0]

SelectReply(a) ==
  IF a.food # "absent" \/ a.workout # "absent"
    THEN IF HasDetails(a.food) /\ ~HasDetails(a.workout)
           THEN [parts |-> <<buildReplyForAnalysis(FoodSub(a))>>, excerpt |-> 0]
         ELSE IF HasDetails(a.workout) /\ ~HasDetails(a.food)
           THEN [parts |-> <<buildReplyForAnalysis(WorkoutSub(a))>>, excerpt |-> 0]
         ELSE IF HasDetails(a.food) /\ HasDetails(a.workout)
           THEN [parts |-> <<buildReplyForAnalysis(FoodSub(a)),
                             buildReplyForAnalysis(WorkoutSub(a))>>, excerpt |-> 0]
         ELSE [parts |-> <<"Sorry, I couldn't confidently extract">>,
               excerpt |-> TranscriptExcerpt(a)]
  ELSE IF a.type # "none"
    THEN [parts |-> <<buildReplyForAnalysis(Some(a))>>, excerpt |-> 0]
  ELSE [parts |-> <<"unexpected format">>, excerpt |-> 0]

\* if (!combinedAnalysis): the fallback runs when the primary left no record
NeedsFallback_always(ca) == TRUE
NeedsFallback(ca) == ca = null

\* if (t.from && !acked.has(t.from))
ShouldAck_nodedup(from, seen) == from # NoFrom
ShouldAck(from, seen) == from # NoFrom /\ from \notin seen

\* for (const t of tasks): the task after task i
NextTask_again(i) == IF i = 2 THEN 1 ELSE i + 1
NextTask(i) == i + 1

\* The text branch's keyword tests on the lower-cased body, in code order.
TextRoute(body) ==
  IF "crave" \in body THEN "craving"
  ELSE IF "what should i eat" \in body THEN "recommend"
  ELSE IF "summary" \in body THEN "summary"
  ELSE "analyze_text"

\* The if / else-if chain of the loop body.
Route(m) ==
  IF m.kind = "media" THEN (IF m.id THEN "media" ELSE "no_media")
  ELSE IF m.kind = "text" THEN TextRoute(m.body)
  ELSE IF m.kind = "interactive" THEN (IF m.title # "" THEN "interactive" ELSE "selection")
  ELSE "unsupported"

IsImageType(ct) == ct = "image/jpeg"
IsAudioType(ct) == ct = "audio/ogg"

\* The branch taken once the media bytes are there.
MediaRoute(ct, m) ==
  IF IsImageType(ct) \/ m.media = "image" THEN "image"
  ELSE IF IsAudioType(ct) \/ m.media = "voice" THEN "audio"
  ELSE "unrecognized_media"

\* Where a raised metaSendText / metaSendImageUrl call is caught: the send
\* made by that catch block, "end" when the catch block is empty, "escape"
\* when no try block of the loop body encloses the call.
OnSendFail_escape(s) ==
  CASE s \in {"no_media", "download_failed", "img_apology", "unrecognized_media",
              "int_reply", "selection_ack", "unsupported"} -> "proc_apology"
    [] s = "img_reply" -> "img_apology"
    [] s \in {"aud_notice", "aud_reply"} -> "aud_apology"
    [] s \in {"crave_reply", "recommend_reply", "charts_text", "txt_apology"} -> "txt_unexpected"
    [] s \in {"chart1", "chart2"} -> "charts_text"
    [] s = "txt_reply" -> "txt_apology"
    [] OTHER -> "escape"

OnSendFail(s) ==
  CASE s \in {"no_media", "download_failed", "img_apology", "unrecognized_media",
              "int_reply", "selection_ack", "unsupported"} -> "proc_apology"
    [] s = "img_reply" -> "img_apology"
    [] s \in {"aud_notice", "aud_reply"} -> "aud_apology"
    [] s \in {"crave_reply", "recommend_reply", "charts_text", "txt_apology"} -> "txt_unexpected"
    [] s \in {"chart1", "chart2"} -> "charts_text"
    [] s = "txt_reply" -> "txt_apology"
    [] OTHER -> "end"

\* What follows a send that went through.
AfterSend(s) == IF s = "chart1" THEN "chart2" ELSE "end"

\* The send made by the catch block around a failed analysis or service call.
OnCallFail(b) ==
  CASE b = "image" -> "img_apology"
    [] b = "analyze_text" -> "txt_apology"
    [] b = "interactive" -> "proc_apology"
    [] OTHER -> "txt_unexpected"

\* The reply send that follows the logging of an analysis.
ReplySite(b) ==
  CASE b = "image" -> "img_reply"
    [] b = "audio" -> "aud_reply"
    [] b = "analyze_text" -> "txt_reply"
    [] OTHER -> "int_reply"

ApologySites == {"proc_apology", "img_apology", "aud_apology", "txt_apology", "txt_unexpected"}

Pending == [done |-> FALSE, attempted |-> FALSE, delivered |-> FALSE, failed |-> FALSE]

Init ==
  /\ incoming \in Payloads
  /\ pc = "start" /\ tasks = <<>> /\ ackIdx = 0 /\ acked = {} /\ ackLog = <<>>
  /\ res = <<>> /\ idx = 0 /\ started = {} /\ outcome = <<>>
  /\ TaskIdle
  /\ opts = DefaultOpts /\ FetchIdle
  /\ ExtIdle

\* Lines 1263-1296: no entry, a payload whose traversal throws, no tasks,
\* or the collected tasks.
CollectTasks ==
  /\ pc = "start"
  /\ IF incoming.entry = "missing"
       THEN res' = Append(res, 200) /\ pc' = "done" /\ UNCHANGED <<tasks, outcome, ackIdx>>
     ELSE IF incoming.entry = "malformed"
       THEN pc' = "outer_catch" /\ UNCHANGED <<res, tasks, outcome, ackIdx>>
     ELSE /\ tasks' = incoming.froms
          /\ outcome' = [i \in 1..Len(incoming.froms) |-> Pending]
          /\ IF incoming.froms = <<>>
               THEN res' = Append(res, 200) /\ pc' = "done" /\ ackIdx' = ackIdx
               ELSE res' = res /\ pc' = "ack" /\ ackIdx' = 1
  /\ UNCHANGED <<incoming, acked, ackLog, idx, started>>
  /\ UNCHANGED <<taskVars, fetchVars>>
  /\ UNCHANGED extVars

\* Lines 1302-1311: one pass of the acknowledgement loop.
AckSender ==
  /\ pc = "ack" /\ ackIdx <= Len(tasks)
  /\ IF ShouldAck(tasks[ackIdx], acked)
       THEN /\ \E ok \in BOOLEAN : ackLog' = Append(ackLog, [to |-> tasks[ackIdx], ok |-> ok])
            /\ acked' = acked \cup {tasks[ackIdx]}
       ELSE UNCHANGED <<ackLog, acked>>
  /\ ackIdx' = ackIdx + 1
  /\ UNCHANGED <<incoming, pc, tasks, res, idx, started, outcome>>
  /\ UNCHANGED <<taskVars, fetchVars>>
  /\ UNCHANGED extVars

\* Line 1314: res.status(200).send()
RespondOk ==
  /\ pc = "ack" /\ ackIdx > Len(tasks)
  /\ res' = Append(res, 200)
  /\ pc' = "loop" /\ idx' = 1
  /\ UNCHANGED <<incoming, tasks, ackIdx, acked, ackLog, started, outcome>>
  /\ UNCHANGED <<taskVars, fetchVars>>
  /\ UNCHANGED extVars

\* Lines 1542-1545: the outer catch answers 500.
OuterCatch ==
  /\ pc = "outer_catch"
  /\ res' = Append(res, 500)
  /\ pc' = "done"
  /\ UNCHANGED <<incoming, tasks, ackIdx, acked, ackLog, idx, started, outcome>>
  /\ UNCHANGED <<taskVars, fetchVars>>
  /\ UNCHANGED extVars

\* Lines 1317-1348 and 1487-1536: take up the next task and route it.
TakeTask ==
  /\ pc = "loop" /\ idx <= Len(tasks)
  /\ started' = started \cup {idx}
  /\ \E m \in Messages :
       /\ message' = m
       /\ branch' = Route(m)
       /\ CASE Route(m) = "media" ->
                 pc' = "download" /\ site' = site /\ fpc' = "meta" /\ opts' = DefaultOpts
            [] Route(m) \in {"no_media", "unsupported"} ->
                 pc' = "send" /\ site' = Route(m) /\ UNCHANGED <<fpc, opts>>
            [] Route(m) = "selection" ->
                 pc' = "send" /\ site' = "selection_ack" /\ UNCHANGED <<fpc, opts>>
            [] Route(m) \in {"craving", "recommend", "summary"} ->
                 pc' = "service" /\ site' = site /\ UNCHANGED <<fpc, opts>>
            [] OTHER ->
                 pc' = "analyze" /\ site' = site /\ UNCHANGED <<fpc, opts>>
  /\ UNCHANGED <<incoming, tasks, ackIdx, acked, ackLog, res, idx, outcome>>
  /\ UNCHANGED <<sends, logs, failed, debugFile, primary, fallback, analysis,
                 combinedAnalysis, reply, contentType>>
  /\ UNCHANGED <<attempt, lastError, mime, tries, delays, fetchErr>>
  /\ UNCHANGED extVars

\* Lines 1351-1397, 1400, 1483: the outcome of fetchMetaMediaBytes.
AfterDownload ==
  /\ pc = "download" /\ fpc \in {"returned", "thrown"}
  /\ IF fpc = "returned"
       THEN /\ contentType' = mime
            /\ branch' = MediaRoute(mime, message)
            /\ failed' = failed
            /\ CASE MediaRoute(mime, message) = "image" -> pc' = "analyze" /\ site' = site
                 [] MediaRoute(mime, message) = "audio" -> pc' = "aud_debug" /\ site' = site
                 [] OTHER -> pc' = "send" /\ site' = "unrecognized_media"
       ELSE /\ failed' = TRUE
            /\ pc' = "send" /\ site' = "download_failed"
            /\ UNCHANGED <<contentType, branch>>
  /\ fpc' = "idle" /\ attempt' = 0 /\ lastError' = "none" /\ mime' = "none"
  /\ tries' = <<>> /\ delays' = <<>> /\ fetchErr' = "none"
  /\ UNCHANGED <<opts, hookRest>>
  /\ UNCHANGED <<message, sends, logs, debugFile, primary, fallback, analysis,
                 combinedAnalysis, reply>>
  /\ UNCHANGED extVars

\* Lines 1386, 1510, 1527: the POST to /analyze-image-with-text or /analyze-text.
AnalyzeCall ==
  /\ pc = "analyze"
  /\ \/ \E a \in TypedRecords :
          analysis' = Some(a) /\ pc' = "log" /\ UNCHANGED <<site, failed>>
     \/ analysis' = analysis /\ failed' = TRUE /\ pc' = "send" /\ site' = OnCallFail(branch)
  /\ UNCHANGED <<message, branch, sends, logs, debugFile, primary, fallback,
                 combinedAnalysis, reply, contentType>>
  /\ UNCHANGED <<hookRest, fetchVars>>
  /\ UNCHANGED extVars

\* Lines 1493, 1496, 1499: /handle-craving, /recommend-food, /analyze-summary.
ServiceCall ==
  /\ pc = "service"
  /\ \/ /\ pc' = "send" /\ failed' = failed
        /\ site' = (CASE branch = "craving" -> "crave_reply"
                      [] branch = "recommend" -> "recommend_reply"
                      [] OTHER -> "chart1")
     \/ failed' = TRUE /\ pc' = "send" /\ site' = OnCallFail(branch)
  /\ UNCHANGED <<message, branch, sends, logs, debugFile, primary, fallback,
                 analysis, combinedAnalysis, reply, contentType>>
  /\ UNCHANGED <<hookRest, fetchVars>>
  /\ UNCHANGED extVars

\* Lines 1403-1414: the debug copy of the voice note (a failed write is swallowed).
AudioDebugWrite ==
  /\ pc = "aud_debug"
  /\ \E ok \in BOOLEAN : debugFile' = IF ok THEN "saved" ELSE "none"
  /\ pc' = "aud_primary"
  /\ UNCHANGED <<message, branch, site, sends, logs, failed, primary, fallback,
                 analysis, combinedAnalysis, reply, contentType>>
  /\ UNCHANGED <<hookRest, fetchVars>>
  /\ UNCHANGED extVars

\* Lines 1416-1426: analyzeAudioWithGPT returns a record or raises.
AudioPrimary ==
  /\ pc = "aud_primary"
  /\ \/ \E a \in PrimaryRecords :
          primary' = "returned" /\ combinedAnalysis' = Some(a) /\ failed' = failed
     \/ primary' = "raised" /\ combinedAnalysis' = null /\ failed' = TRUE
  /\ IF NeedsFallback(combinedAnalysis')
       THEN pc' = "aud_fallback" /\ reply' = reply
       ELSE pc' = "log" /\ reply' = SelectReply(combinedAnalysis'[1])
  /\ UNCHANGED <<message, branch, site, sends, logs, debugFile, fallback, analysis, contentType>>
  /\ UNCHANGED <<hookRest, fetchVars>>
  /\ UNCHANGED extVars

\* Lines 1427-1441 with processAndLogAudio (866-893): POST /analyze-audio,
\* then POST /log-analysis; either may raise.
AudioFallback ==
  /\ pc = "aud_fallback"
  /\ \/ fallback' = "raised" /\ combinedAnalysis' = combinedAnalysis /\ logs' = logs
     \/ /\ fallback' = "raised" /\ combinedAnalysis' = combinedAnalysis
        /\ logs' = Append(logs, [by |-> "processAndLogAudio", ok |-> FALSE])
     \/ \E a \in FallbackRecords :
          /\ fallback' = "returned" /\ combinedAnalysis' = Some(a)
          /\ logs' = Append(logs, [by |-> "processAndLogAudio", ok |-> TRUE])
  /\ IF combinedAnalysis' = null
       THEN pc' = "send" /\ site' = "aud_notice" /\ reply' = reply
       ELSE pc' = "log" /\ site' = site /\ reply' = SelectReply(combinedAnalysis'[1])
  /\ UNCHANGED <<message, branch, sends, failed, debugFile, primary, analysis, contentType>>
  /\ UNCHANGED <<hookRest, fetchVars>>
  /\ UNCHANGED extVars

\* logAnalysisMeta (1227-1256) as called at 1389, 1471, 1511, 1528: the POST
\* to /log-analysis; a failure is swallowed.  The non-audio branches build
\* the reply after it.
LogAnalysisMeta ==
  /\ pc = "log"
  /\ \E ok \in BOOLEAN :
       /\ logs' = Append(logs, [by |-> "logAnalysisMeta", ok |-> ok])
       /\ failed' = (failed \/ ~ok)
  /\ reply' = IF branch = "audio" THEN reply
              ELSE [parts |-> <<buildReplyForAnalysis(analysis)>>, excerpt |-> 0]
  /\ pc' = "send" /\ site' = ReplySite(branch)
  /\ UNCHANGED <<message, branch, sends, debugFile, primary, fallback, analysis,
                 combinedAnalysis, contentType>>
  /\ UNCHANGED <<hookRest, fetchVars>>
  /\ UNCHANGED extVars

\* metaSendText / metaSendImageUrl at the current call site.
Send ==
  /\ pc = "send"
  /\ \E ok \in BOOLEAN :
       /\ sends' = Append(sends, [site |-> site, ok |-> ok])
       /\ failed' = (failed \/ ~ok)
       /\ LET next == IF ok THEN AfterSend(site) ELSE OnSendFail(site) IN
            CASE next = "end" -> pc' = "task_end" /\ site' = "none"
              [] next = "escape" -> pc' = "outer_catch" /\ site' = "none"
              [] OTHER -> pc' = "send" /\ site' = next
  /\ UNCHANGED <<message, branch, logs, debugFile, primary, fallback, analysis,
                 combinedAnalysis, reply, contentType>>
  /\ UNCHANGED <<hookRest, fetchVars>>
  /\ UNCHANGED extVars

\* End of one pass of the task loop (continue, or the end of the loop body).
TaskEnd ==
  /\ pc = "task_end"
  /\ outcome' = [outcome EXCEPT ![idx] =
                   [done |-> TRUE, attempted |-> sends # <<>>,
                    delivered |-> \E k \in 1..Len(sends) : sends[k].ok,
                    failed |-> failed]]
  /\ idx' = NextTask(idx)
  /\ pc' = "loop"
  /\ message' = NoMessage /\ branch' = "none" /\ site' = "none" /\ sends' = <<>>
  /\ logs' = <<>> /\ failed' = FALSE /\ debugFile' = "none" /\ primary' = "none"
  /\ fallback' = "none" /\ analysis' = null /\ combinedAnalysis' = null
  /\ reply' = NoReply /\ contentType' = "none"
  /\ UNCHANGED <<incoming, tasks, ackIdx, acked, ackLog, res, started>>
  /\ UNCHANGED fetchVars
  /\ UNCHANGED extVars

\* Line 1541: the loop is over and the handler returns.
LoopEnd ==
  /\ pc = "loop" /\ idx > Len(tasks)
  /\ pc' = "done"
  /\ UNCHANGED <<incoming, tasks, ackIdx, acked, ackLog, res, idx, started, outcome>>
  /\ UNCHANGED <<taskVars, fetchVars>>
  /\ UNCHANGED extVars

Next ==
  \/ CollectTasks \/ AckSender \/ RespondOk \/ OuterCatch
  \/ TakeTask \/ AfterDownload \/ AnalyzeCall \/ ServiceCall
  \/ AudioDebugWrite \/ AudioPrimary \/ AudioFallback
  \/ LogAnalysisMeta \/ Send \/ TaskEnd \/ LoopEnd
  \/ FetchMediaObject \/ TryDownload \/ Backoff \/ GiveUp

Spec == Init /\ [][Next]_vars

InTask == pc \in {"download", "analyze", "service", "aud_debug", "aud_primary",
                  "aud_fallback", "log", "send", "task_end"}

\* The webhook handler and the media fetcher are not running.
WebhookOff ==
  /\ incoming = [entry |-> "missing", froms |-> <<>>]
  /\ pc = "off" /\ tasks = <<>> /\ ackIdx = 0 /\ acked = {} /\ ackLog = <<>>
  /\ res = <<>> /\ idx = 0 /\ started = {} /\ outcome = <<>>
  /\ TaskIdle
  /\ opts = DefaultOpts /\ FetchIdle

\* ======================================================================
\* preprocessAudio and transcribeAudioWithWhisper
\* ======================================================================

\* preprocessAudio: return cleanedPath after execPromise resolved, rawPath
\* from the catch block.
PreprocessReturn_cleaned(ok, rawPath, cleanedPath) == cleanedPath
PreprocessReturn(ok, rawPath, cleanedPath) == IF ok THEN cleanedPath ELSE rawPath

\* The finally block: for (const p of [rawPath, cleanedPath])
CleanupPaths_raw(rawPath, cleanedPath) == {rawPath}
CleanupPaths(rawPath, cleanedPath) == {rawPath, cleanedPath}

Exists(fs, p) == fs[p] # "absent"
OwnPaths(c) == {RawPath(stamp[c]), CleanedPath(stamp[c])}

\* The clock moves on.
Tick ==
  /\ now < MaxStamp
  /\ now' = now + 1
  /\ UNCHANGED <<tpc, stamp, files, pathForWhisper, pre, exit>>
  /\ UNCHANGED <<hookVars, taskVars, fetchVars, pureVars>>

\* Lines 400-404: the paths are named after Date.now() and the raw file is
\* written; a write that throws leaves the function before the try block,
\* with or without a file at rawPath.
StartCall(c) ==
  /\ tpc[c] = "idle"
  /\ stamp' = [stamp EXCEPT ![c] = now]
  /\ \E w \in {"written", "throws", "throws_partial"} :
       /\ files' = [files EXCEPT ![RawPath(now)] =
                      IF w = "written" THEN "audio"
                      ELSE IF w = "throws_partial" THEN "partial" ELSE @]
       /\ IF w = "written"
            THEN tpc' = [tpc EXCEPT ![c] = "preprocess"] /\ exit' = exit
            ELSE /\ tpc' = [tpc EXCEPT ![c] = "raised"]
                 /\ exit' = [exit EXCEPT ![c] =
                      [path |-> "write_failed",
                       left |-> { p \in {RawPath(now), CleanedPath(now)} : Exists(files', p) },
                       unlinkOk |-> TRUE]]
  /\ UNCHANGED <<now, pathForWhisper, pre>>
  /\ UNCHANGED <<hookVars, taskVars, fetchVars, pureVars>>

\* Line 409 with preprocessAudio (340-354): ffmpeg reads rawPath and writes
\* cleanedPath.  It exits with 0 only when it could read its input; a failed
\* run may leave a partial output behind.
Preprocess(c) ==
  /\ tpc[c] = "preprocess"
  /\ LET rawPath == RawPath(stamp[c])
         cleanedPath == CleanedPath(stamp[c])
     IN \E run \in {"ok", "failed", "failed_partial"} :
          /\ run = "ok" => Exists(files, rawPath)
          /\ files' = [files EXCEPT ![cleanedPath] =
                         IF run = "ok" THEN "wav"
                         ELSE IF run = "failed_partial" THEN "partial" ELSE @]
          /\ pathForWhisper' = [pathForWhisper EXCEPT ![c] =
                                  PreprocessReturn(run = "ok", rawPath, cleanedPath)]
          /\ pre' = [pre EXCEPT ![c] =
                       [ffmpeg |-> IF run = "ok" THEN "ok" ELSE "failed",
                        returned |-> pathForWhisper'[c],
                        rawKept |-> files'[rawPath] = files[rawPath]]]
  /\ tpc' = [tpc EXCEPT ![c] = "check"]
  /\ UNCHANGED <<now, stamp, exit>>
  /\ UNCHANGED <<hookVars, taskVars, fetchVars, pureVars>>

\* The catch and finally blocks (427-435) after the try block was left by
\* `how`: every path of CleanupPaths that exists is unlinked; an unlink that
\* throws is swallowed and leaves the file.
Leave(c, how) ==
  LET rawPath == RawPath(stamp[c])
      cleanedPath == CleanedPath(stamp[c])
      present == { p \in CleanupPaths(rawPath, cleanedPath) : Exists(files, p) }
  IN \E bad \in SUBSET present :
       /\ files' = [p \in Paths |-> IF p \in present \ bad THEN "absent" ELSE files[p]]
       /\ exit' = [exit EXCEPT ![c] =
                     [path |-> how,
                      left |-> { p \in {rawPath, cleanedPath} : Exists(files', p) },
                      unlinkOk |-> bad = {}]]
       /\ tpc' = [tpc EXCEPT ![c] =
                    IF how \in {"success", "raw_used"} THEN "returned" ELSE "raised"]

\* Lines 411-415: the file to upload must exist.
CheckFile(c) ==
  /\ tpc[c] = "check"
  /\ IF Exists(files, pathForWhisper[c])
       THEN tpc' = [tpc EXCEPT ![c] = "whisper"] /\ UNCHANGED <<files, exit>>
       ELSE Leave(c, "missing_file")
  /\ UNCHANGED <<now, stamp, pathForWhisper, pre>>
  /\ UNCHANGED <<hookVars, taskVars, fetchVars, pureVars>>

\* Lines 417-426: the transcription request returns the text or raises.
Whisper(c) ==
  /\ tpc[c] = "whisper"
  /\ \/ Leave(c, IF pathForWhisper[c] = CleanedPath(stamp[c]) THEN "success" ELSE "raw_used")
     \/ Leave(c, "transcription_failed")
  /\ UNCHANGED <<now, stamp, pathForWhisper, pre>>
  /\ UNCHANGED <<hookVars, taskVars, fetchVars, pureVars>>

TranscribeNext ==
  \/ Tick
  \/ \E c \in Calls : StartCall(c)
  \/ \E c \in Calls : Preprocess(c)
  \/ \E c \in Calls : CheckFile(c)
  \/ \E c \in Calls : Whisper(c)

InitTranscribe == WebhookOff /\ ExtIdle

SpecTranscribe == InitTranscribe /\ [][TranscribeNext]_vars

\* ======================================================================
\* JavaScript strings, as sequences of characters
\* ======================================================================
UpperCase == <<"A", "B", "C", "D", "E", "F", "G", "H", "I", "J", "K", "L", "M", "N", "O", "P", "Q", "R", "S", "T", "U", "V", "W", "X", "Y", "Z">>
LowerCase == <<"a", "b", "c", "d", "e", "f", "g", "h", "i", "j", "k", "l", "m", "n", "o", "p", "q", "r", "s", "t", "u", "v", "w", "x", "y", "z">>
LowerOf == [ch \in { UpperCase[i] : i \in DOMAIN UpperCase } |->
              LowerCase[CHOOSE i \in DOMAIN UpperCase : UpperCase[i] = ch]]
ToLowerChar(ch) == IF ch \in DOMAIN LowerOf THEN LowerOf[ch] ELSE ch
toLowerCase(s) == [i \in 1..Len(s) |-> ToLowerChar(s[i])]
includes(s, sub) == \E i \in 0..(Len(s) - Len(sub)) : SubSeq(s, i + 1, i + Len(sub)) = sub
IsSpace(ch) == ch \in {" ", "\n"}
RECURSIVE trimStart(_)
trimStart(s) == IF s # <<>> /\ IsSpace(Head(s)) THEN trimStart(Tail(s)) ELSE s
RECURSIVE trimEnd(_)
trimEnd(s) == IF s # <<>> /\ IsSpace(s[Len(s)]) THEN trimEnd(SubSeq(s, 1, Len(s) - 1)) ELSE s
trim(s) == trimEnd(trimStart(s))
\* x || "": the string of an optional string
OrEmpty(x) == IF x = null THEN <<>> ELSE x[1]

\* ======================================================================
\* JavaScript numbers and values
\* ======================================================================
\* A number is finite, counted in thousandths, or NaN, Infinity, -Infinity.
Unit == 1000
Num(k, v) == [k |-> k, v |-> v]
Fin(v) == Num("fin", v)
NaN == Num("nan", 0)
Infinity == Num("inf", 0)
NegInfinity == Num("ninf", 0)
IsFinite(n) == n.k = "fin"
\* n is truthy: neither 0 nor NaN
Truthy(n) == ~(n.k = "nan" \/ (n.k = "fin" /\ n.v = 0))

\* A value as JSON.parse gives it: its type, its number, its string.
JS(t, n, s) == [t |-> t, n |-> n, s |-> s]
undefined == JS("undefined", NaN, <<>>)
JSNull == JS("null", Fin(0), <<>>)
JSNumber(n) == JS("number", n, <<>>)
JSString(s) == JS("string", NaN, s)
JSBool(b) == JS("boolean", Fin(IF b THEN Unit ELSE 0), <<>>)
JSObject == JS("object", NaN, <<>>)
Nullish(x) == x.t \in {"undefined", "null"}

Digits == <<"0", "1", "2", "3", "4", "5", "6", "7", "8", "9">>
DigitValues == [ch \in { Digits[i] : i \in DOMAIN Digits } |->
                  (CHOOSE i \in DOMAIN Digits : Digits[i] = ch) - 1]
IsDigit(ch) == ch \in DOMAIN DigitValues
DigitVal(ch) == DigitValues[ch]
AllDigits(s) == \A i \in 1..Len(s) : IsDigit(s[i])
RECURSIVE IntOf(_)
IntOf(s) == IF s = <<>> THEN 0 ELSE 10 * IntOf(SubSeq(s, 1, Len(s) - 1)) + DigitVal(s[Len(s)])
\* position of the first character of s that is in chars, 0 when there is none
IndexOf(s, chars) ==
  IF \E i \in 1..Len(s) : s[i] \in chars
    THEN CHOOSE i \in 1..Len(s) : s[i] \in chars /\ \A j \in 1..(i - 1) : s[j] \notin chars
    ELSE 0
\* the first three decimals of a fraction, in thousandths
Thousandths(frac) ==
  LET d(i) == IF i <= Len(frac) THEN DigitVal(frac[i]) ELSE 0
  IN 100 * d(1) + 10 * d(2) + d(3)
Scale(v, exp) == IF exp >= 0 THEN v * (10 ^ exp) ELSE v \div (10 ^ (0 - exp))

\* An optionally signed run of digits: its value, null when it is malformed.
SignedDigits(neg, digits) ==
  IF digits = <<>> \/ ~AllDigits(digits) THEN null
  ELSE Some(IF neg THEN 0 - IntOf(digits) ELSE IntOf(digits))
ExponentValue(expo) ==
  IF expo = <<>> THEN null
  ELSE IF Head(expo) \in {"+", "-"} THEN SignedDigits(Head(expo) = "-", Tail(expo))
  ELSE SignedDigits(FALSE, expo)
\* Digits, a dot, digits, one side at least: in thousandths, null when malformed.
FixedPoint(int, frac) ==
  IF AllDigits(int) /\ AllDigits(frac) /\ (int # <<>> \/ frac # <<>>)
    THEN Some(Unit * IntOf(int) + Thousandths(frac))
    ELSE null
MantissaAt(mant, dot) ==
  IF dot = 0 THEN FixedPoint(mant, <<>>)
  ELSE FixedPoint(SubSeq(mant, 1, dot - 1), SubSeq(mant, dot + 1, Len(mant)))
MantissaValue(mant) == MantissaAt(mant, IndexOf(mant, {"."}))
Scaled(m, x) == IF m = null \/ x = null THEN NaN ELSE Fin(Scale(m[1], x[1]))
DecimalAt(s, e) ==
  IF e = 0 THEN Scaled(MantissaValue(s), Some(0))
  ELSE Scaled(MantissaValue(SubSeq(s, 1, e - 1)), ExponentValue(SubSeq(s, e + 1, Len(s))))
\* The value of an unsigned decimal literal: digits, a fraction, an exponent.
DecimalLiteral(s) == DecimalAt(s, IndexOf(s, {"e", "E"}))

Negate(n) ==
  CASE n.k = "fin" -> Fin(0 - n.v)
    [] n.k = "inf" -> NegInfinity
    [] n.k = "ninf" -> Infinity
    [] OTHER -> NaN

InfinityWord == <<"I", "n", "f", "i", "n", "i", "t", "y">>
Magnitude(body) == IF body = InfinityWord THEN Infinity ELSE DecimalLiteral(body)
Signed(neg, magnitude) == IF neg THEN Negate(magnitude) ELSE magnitude
TrimmedToNumber(t) ==
  IF t = <<>> THEN Fin(0)
  ELSE Signed(Head(t) = "-", Magnitude(IF Head(t) \in {"+", "-"} THEN Tail(t) ELSE t))
\* Number(string): blank is 0; a signed decimal literal or Infinity; else NaN.
StringToNumber(str) == TrimmedToNumber(trim(str))

\* Number(x)
Number(x) ==
  CASE x.t = "undefined" -> NaN
    [] x.t = "null" -> Fin(0)
    [] x.t \in {"number", "boolean"} -> x.n
    [] x.t = "string" -> StringToNumber(x.s)
    [] OTHER -> NaN

\* ======================================================================
\* classifyFoodOrWorkoutFromText, classifyFoodOrWorkoutFromImage
\* ======================================================================
Workout == <<"w", "o", "r", "k", "o", "u", "t">>
Food == <<"f", "o", "o", "d">>

\* message.content of the classification answer
ClsContents ==
  { null,
    Some(<<"w", "o", "r", "k", "o", "u", "t">>),
    Some(<<"W", "o", "r", "k", "o", "u", "t">>),
    Some(<<"W", "O", "R", "K", "O", "U", "T">>),
    Some(<<" ", "W", "o", "r", "k", "o", "u", "t", ".", " ">>),
    Some(<<"f", "o", "o", "d">>),
    Some(<<>>),
    Some(<<"w", "o", "r", "k", " ", "o", "u", "t">>),
    Some(<<"I", "t", " ", "i", "s", " ", "a", " ", "w", "o", "r", "k", "o", "u", "t">>),
    Some(<<"F", "o", "o", "d", ",", " ", "n", "o", "t", " ", "a", " ", "W", "o", "r", "k", "O", "u", "t">>),
    Some(<<"e", "x", "e", "r", "c", "i", "s", "e">>) }
\* the text handed to the text classifier
ClsTexts == {null, Some(<<>>), Some(<<" ", " ">>), Some(<<"r", "a", "n", " ", "5", "k">>)}
ClsInputs ==
  [fn : {"text"}, text : ClsTexts, call : {"returns", "throws"}, content : ClsContents]
  \cup [fn : {"image"}, text : {null}, call : {"returns", "throws"}, content : ClsContents]

\* .toLowerCase().includes("workout")
SaysWorkout_cased(c) == includes(c, Workout)
SaysWorkout(c) == includes(toLowerCase(c), Workout)

Classified(v, called) == [value |-> v, called |-> called, raised |-> FALSE]

\* Lines 1568-1592: everything runs inside the try block; an empty input is
\* answered without a call.
classifyFoodOrWorkoutFromText(text, call, content) ==
  LET input == trim(OrEmpty(text)) IN
    IF input = <<>> THEN Classified("food", FALSE)
    ELSE IF call = "throws" THEN Classified("food", TRUE)
    ELSE IF SaysWorkout(OrEmpty(content)) THEN Classified("workout", TRUE)
    ELSE Classified("food", TRUE)

\* Lines 280-297 (the later of the two declarations of that name).
classifyFoodOrWorkoutFromImage(call, content) ==
  IF call = "throws" THEN Classified("food", TRUE)
  ELSE LET c == IF OrEmpty(content) = <<>> THEN Food ELSE content[1] IN
         IF SaysWorkout(trim(c)) THEN Classified("workout", TRUE)
         ELSE Classified("food", TRUE)

Classify ==
  /\ clsIn # null /\ cls = null
  /\ LET i == clsIn[1] IN
       cls' = Some(IF i.fn = "text"
                     THEN classifyFoodOrWorkoutFromText(i.text, i.call, i.content)
                     ELSE classifyFoodOrWorkoutFromImage(i.call, i.content))
  /\ UNCHANGED <<clsIn, extractVars, reconcileVars, energyVars, moreVars>>
  /\ UNCHANGED <<hookVars, taskVars, fetchVars, audioVars>>

InitClassify ==
  /\ WebhookOff /\ TranscribeIdle /\ ExtractIdle /\ ReconcileIdle /\ EnergyIdle /\ MoreIdle
  /\ clsIn \in { Some(i) : i \in ClsInputs }
  /\ cls = null

SpecClassify == InitClassify /\ [][Classify]_vars

\* ======================================================================
\* analyzeContentWithChatGPT, analyzeImageWithChatGPT
\* ======================================================================
\* An entry of an assumptions list: a text, or the `vision_conf:<value>` note
Note(text) == [text |-> text, conf |-> NaN]
VisionConf(n) == [text |-> "vision_conf", conf |-> n]

\* d.assumptions: absent, a list, or a single string
NoAssumptions == [t |-> "undefined", a |-> <<>>]
AssumptionList(a) == [t |-> "array", a |-> a]
AssumptionString(x) == [t |-> "string", a |-> <<Note(x)>>]

\* One element of details, by the fields the code reads; d.macros.* is
\* undefined when d.macros is.
RawDetail(item, quantity, calories, protein, fat, carbs, source, confidence, assumptions) ==
  [item |-> item, quantity |-> quantity, calories |-> calories, protein |-> protein,
   fat |-> fat, carbs |-> carbs, source |-> source, confidence |-> confidence,
   assumptions |-> assumptions]

RawDetails ==
  {
    \* a plain item
    RawDetail(JSString(<<"d", "a", "l">>), JSNumber(Fin(1000)), JSNumber(Fin(120500)),
              JSNumber(Fin(6000)), JSNumber(Fin(2000)), JSNumber(Fin(18000)),
              JSString(<<"v", "i", "s", "i", "o", "n">>), JSNumber(Fin(800)), NoAssumptions),
    \* an item without fields (or null, or a primitive)
    RawDetail(undefined, undefined, undefined,
              undefined, undefined, undefined,
              undefined, undefined, NoAssumptions),
    \* negative numbers
    RawDetail(JSString(<<"r", "i", "c", "e">>), JSNumber(Fin(-1000)), JSNumber(Fin(-50000)),
              JSNumber(Fin(-2000)), JSNumber(Fin(-1000)), JSNumber(Fin(-3000)),
              undefined, JSNumber(Fin(-500)), NoAssumptions),
    \* numbers as strings
    RawDetail(JSString(<<"r", "o", "t", "i">>), JSString(<<"2">>), JSString(<<"2", "5", "0">>),
              JSString(<<"a", "b", "c">>), JSString(<<>>), JSString(<<" ", "7", " ">>),
              JSString(<<"l", "a", "b", "e", "l">>), JSString(<<"0", ".", "7">>), NoAssumptions),
    \* null fields
    RawDetail(JSNull, JSNull, JSNull,
              JSNull, JSNull, JSNull,
              JSNull, JSNull, NoAssumptions),
    \* out of range: 1e999, a boolean, an object, confidence 5
    RawDetail(JSString(<<"n", "a", "a", "n">>), JSNumber(Fin(1000)), JSNumber(Infinity),
              JSNumber(Fin(5000)), JSBool(TRUE), JSObject,
              JSString(<<"v", "i", "s", "i", "o", "n">>), JSNumber(Fin(5000)), NoAssumptions)
  }

SeqsUpTo(S, n) == UNION { [1..k -> S] : k \in 0..n }

\* out.details: absent, not an array, or a list of elements
DetailsShapes ==
  { [t |-> "undefined", items |-> <<>>], [t |-> "object", items |-> <<>>] }
  \cup { [t |-> "array", items |-> l] : l \in SeqsUpTo(RawDetails, MaxItems) }
EmptyDetails == [t |-> "array", items |-> <<>>]

\* message.content of the structured answer as JSON.parse sees it: text that
\* does not parse, null, a primitive, or an object with (or without) a type.
Bodies ==
  { [kind |-> k, type |-> "", details |-> EmptyDetails] : k \in {"invalid", "null", "primitive"} }
  \cup [kind : {"object"}, type : {"", "food", "workout", "meal"}, details : DetailsShapes]

\* The classification, the outcome of the inference call and its answer.
Answers == [fn : {"text", "image"}, cls : {"food", "workout"},
            call : {"returns", "throws"}, body : Bodies]

\* x ?? ""
OrEmptyString(x) == IF Nullish(x) THEN JSString(<<>>) ELSE x
\* Number(x ?? 0) || 0
OrZero(n) == IF Truthy(n) THEN n ELSE Fin(0)
NumberOr0(x) == OrZero(Number(IF Nullish(x) THEN JSNumber(Fin(0)) ELSE x))
\* Math.max(0, Math.min(1, Number(x ?? 0))) || 0
ClampNumber01(n) ==
  CASE n.k = "nan" -> Fin(0)
    [] n.k = "inf" -> Fin(Unit)
    [] n.k = "ninf" -> Fin(0)
    [] OTHER -> Fin(IF n.v < 0 THEN 0 ELSE IF n.v > Unit THEN Unit ELSE n.v)
Clamp01(x) == ClampNumber01(Number(IF Nullish(x) THEN JSNumber(Fin(0)) ELSE x))

\* Lines 474-487 and 809-822: the element built by out.details.map
NumericFields == {"quantity", "calories", "protein", "fat", "carbs"}
\* the numeric fields of an element, each Number(x ?? 0) || 0
NumbersOf(d) == [k \in NumericFields |-> JSNumber(NumberOr0(d[k]))]
WithNumbers(n, item, source, confidence, assumptions) ==
  RawDetail(item, n.quantity, n.calories, n.protein, n.fat, n.carbs,
            source, confidence, assumptions)
NormalizeDetail(d) ==
  WithNumbers(NumbersOf(d), OrEmptyString(d.item), OrEmptyString(d.source),
              JSNumber(Clamp01(d.confidence)), NoAssumptions)

\* out && out.type === tag
TagMatches_object(body, tag) == body.kind = "object"
TagMatches(body, tag) == body.kind = "object" /\ body.type = tag

Extracted(type, details) == [raised |-> FALSE, type |-> type, details |-> details]
ExtractRaised == [raised |-> TRUE, type |-> "", details |-> EmptyDetails]

\* Lines 469-489 and 804-824
ExtractFood(body) ==
  IF ~TagMatches(body, "food") THEN Extracted("food", EmptyDetails)
  ELSE Extracted(body.type,
         [t |-> "array",
          items |-> IF body.details.t = "array"
                      THEN [i \in 1..Len(body.details.items) |->
                              NormalizeDetail(body.details.items[i])]
                      ELSE <<>>])

\* Lines 453-456 and 782-785: a workout answer is returned as it came
ExtractWorkout(body) ==
  IF ~TagMatches(body, "workout") THEN Extracted("workout", EmptyDetails)
  ELSE Extracted(body.type, body.details)

\* The inference call is outside every try block.
analyzeContentWithChatGPT(c, call, body) ==
  IF call = "throws" THEN ExtractRaised
  ELSE IF c = "workout" THEN ExtractWorkout(body)
  ELSE ExtractFood(body)

analyzeImageWithChatGPT(c, call, body) ==
  IF call = "throws" THEN ExtractRaised
  ELSE IF c = "workout" THEN ExtractWorkout(body)
  ELSE ExtractFood(body)

Extract ==
  /\ answer # null /\ out = null
  /\ LET a == answer[1] IN
       out' = Some(IF a.fn = "text"
                     THEN analyzeContentWithChatGPT(a.cls, a.call, a.body)
                     ELSE analyzeImageWithChatGPT(a.cls, a.call, a.body))
  /\ UNCHANGED <<answer, clsVars, reconcileVars, energyVars, moreVars>>
  /\ UNCHANGED <<hookVars, taskVars, fetchVars, audioVars>>

InitExtract ==
  /\ WebhookOff /\ TranscribeIdle /\ ClassifyIdle /\ ReconcileIdle /\ EnergyIdle /\ MoreIdle
  /\ answer \in { Some(a) : a \in Answers }
  /\ out = null

SpecExtract == InitExtract /\ [][Extract]_vars

\* ======================================================================
\* POST /analyze-image-with-text
\* ======================================================================
\* Elements of details in the answer for the caption; item is a string or absent.
CaptionRawDetails ==
  {
    \* "banana smoothie", confidence below the floor
    RawDetail(JSString(<<"b", "a", "n", "a", "n", "a", " ", "s", "m", "o", "o", "t", "h", "i", "e">>), JSNumber(Fin(1000)), JSNumber(Fin(180400)),
              JSNumber(Fin(4000)), JSNumber(Fin(2000)), JSNumber(Fin(30000)),
              JSString(<<"l", "a", "b", "e", "l">>), JSNumber(Fin(500)),
              NoAssumptions),
    \* "dal", confidence in words
    RawDetail(JSString(<<"d", "a", "l">>), JSNumber(Fin(1000)), JSNumber(Fin(120500)),
              JSNumber(Fin(6000)), JSNumber(Fin(2000)), JSNumber(Fin(18000)),
              undefined, JSString(<<"h", "i", "g", "h">>),
              AssumptionString("home made")),
    \* "Fried Rice", calories as a string, confidence 5
    RawDetail(JSString(<<"F", "r", "i", "e", "d", " ", "R", "i", "c", "e">>), JSString(<<"2">>), JSString(<<"2", "5", "0">>),
              undefined, undefined, undefined,
              JSString(<<"v", "i", "s", "i", "o", "n">>), JSNumber(Fin(5000)),
              AssumptionList(<<Note("one plate")>>)),
    \* a name without letters or digits
    RawDetail(JSString(<<"!", "!">>), JSNumber(Fin(1000)), JSNumber(Fin(40000)),
              undefined, undefined, undefined,
              undefined, undefined,
              NoAssumptions)
  }

\* Elements of details in the answer for the image.
VisionRawDetails ==
  {
    \* "smoothie"
    RawDetail(JSString(<<"s", "m", "o", "o", "t", "h", "i", "e">>), JSNumber(Fin(1000)), JSNumber(Fin(150300)),
              JSNumber(Fin(3000)), JSNumber(Fin(1000)), JSNumber(Fin(25000)),
              undefined, JSNumber(Fin(800)),
              AssumptionList(<<Note("glass")>>)),
    \* "rice"
    RawDetail(JSString(<<"r", "i", "c", "e">>), JSNumber(Fin(1000)), JSNumber(Fin(200500)),
              JSNumber(Fin(4000)), JSNumber(Fin(0)), JSNumber(Fin(45000)),
              JSString(<<"I", "F", "C", "T">>), JSNumber(Fin(600)),
              NoAssumptions),
    \* "Rice bowl", confidence in words
    RawDetail(JSString(<<"R", "i", "c", "e", " ", "b", "o", "w", "l">>), JSNumber(Fin(1000)), JSNumber(Fin(210000)),
              undefined, undefined, undefined,
              undefined, JSString(<<"a", "b", "c">>),
              AssumptionString("bowl")),
    \* no name
    RawDetail(undefined, JSNumber(Fin(1000)), JSNumber(Fin(30000)),
              undefined, undefined, undefined,
              undefined, JSNumber(Fin(400)),
              NoAssumptions),
    \* "Dalia", negative calories, confidence 2
    RawDetail(JSString(<<"D", "a", "l", "i", "a">>), JSNumber(Fin(1000)), JSNumber(Fin(-20000)),
              undefined, undefined, undefined,
              undefined, JSNumber(Fin(2000)),
              AssumptionList(<<Note("one plate"), Note("glass")>>))
  }

\* totals of an answer: calories and confidence as reported
ReportedTotals == { [calories |-> c, confidence |-> c] : c \in {undefined, JSNumber(Fin(999 * Unit))} }
NoTotals == [calories |-> undefined, confidence |-> undefined]
ZeroTotals == [calories |-> JSNumber(Fin(0)), confidence |-> JSNumber(Fin(0))]

RBody(kind, type, details, totals) ==
  [kind |-> kind, type |-> type, details |-> details, totals |-> totals]

\* The caption: absent; or its classification, the outcome of the inference
\* call and what safeParse made of the answer.
CaptionResps ==
  { [present |-> FALSE, cls |-> "food", call |-> "returns",
     body |-> RBody("invalid", "", EmptyDetails, NoTotals)] }
  \cup { [present |-> TRUE, cls |-> c, call |-> "throws",
          body |-> RBody("invalid", "", EmptyDetails, NoTotals)] : c \in {"food", "workout"} }
  \cup { [present |-> TRUE, cls |-> c, call |-> "returns",
          body |-> RBody(k, "", EmptyDetails, NoTotals)] :
            c \in {"food", "workout"}, k \in {"invalid", "null"} }
  \cup { [present |-> TRUE, cls |-> "food", call |-> "returns",
          body |-> RBody("object", t, d, NoTotals)] :
            t \in {"food", "workout"},
            d \in { [t |-> "undefined", items |-> <<>>], [t |-> "object", items |-> <<>>] } }
  \cup { [present |-> TRUE, cls |-> "food", call |-> "returns",
          body |-> RBody("object", "food", [t |-> "array", items |-> l], tot)] :
            l \in SeqsUpTo(CaptionRawDetails, MaxItems), tot \in ReportedTotals }
  \cup { [present |-> TRUE, cls |-> "workout", call |-> "returns",
          body |-> RBody("object", "workout", [t |-> "array", items |-> l], NoTotals)] :
            l \in SeqsUpTo(CaptionRawDetails, MaxItems) }

\* The image: no file; or the outcome of the vision call and its answer.
VisionResps ==
  { [file |-> FALSE, call |-> "returns", body |-> RBody("invalid", "", EmptyDetails, NoTotals)] }
  \cup { [file |-> TRUE, call |-> "throws", body |-> RBody("invalid", "", EmptyDetails, NoTotals)] }
  \cup { [file |-> TRUE, call |-> "returns", body |-> RBody(k, "", EmptyDetails, NoTotals)] :
           k \in {"invalid", "null"} }
  \cup { [file |-> TRUE, call |-> "returns",
          body |-> RBody("object", "workout", EmptyDetails, NoTotals)] }
  \cup { [file |-> TRUE, call |-> "returns",
          body |-> RBody("object", "food", [t |-> "undefined", items |-> <<>>], NoTotals)] }
  \cup { [file |-> TRUE, call |-> "returns",
          body |-> RBody("object", "food", [t |-> "array", items |-> l], tot)] :
            l \in SeqsUpTo(VisionRawDetails, MaxItems), tot \in ReportedTotals }

\* ---- arithmetic on numbers
Add(a, b) ==
  CASE a.k = "nan" \/ b.k = "nan" -> NaN
    [] a.k = "fin" /\ b.k = "fin" -> Fin(a.v + b.v)
    [] a.k = "fin" -> b
    [] b.k = "fin" -> a
    [] a.k = b.k -> a
    [] OTHER -> NaN
\* Math.round: to the nearest integer, halves upwards
MathRound(n) == IF n.k = "fin" THEN Fin(((n.v + (Unit \div 2)) \div Unit) * Unit) ELSE n
\* Math.max(0.9, n)
MaxFloor(floor, n) ==
  CASE n.k = "nan" -> NaN
    [] n.k = "inf" -> Infinity
    [] n.k = "ninf" -> Fin(floor)
    [] OTHER -> Fin(IF n.v < floor THEN floor ELSE n.v)
\* +(sum / count).toFixed(3): to the nearest thousandth, halves away from 0
AverageFixed3(sum, count) ==
  IF sum.k # "fin" THEN sum
  ELSE IF sum.v >= 0 THEN Fin((2 * sum.v + count) \div (2 * count))
  ELSE Fin(0 - ((2 * (0 - sum.v) + count) \div (2 * count)))
\* x is falsy
Falsy(x) ==
  \/ Nullish(x)
  \/ x.t \in {"number", "boolean"} /\ ~Truthy(x.n)
  \/ x.t = "string" /\ x.s = <<>>

\* ---- names
\* (n || "").toString() for the names that occur: strings, null, undefined
NameString(x) == IF Falsy(x) THEN <<>> ELSE x.s
NameChars == { LowerCase[i] : i \in DOMAIN LowerCase } \cup DOMAIN DigitValues \cup {" ", "\n"}
KeptInName(ch) == ch \in NameChars
\* .toLowerCase().replace(/[^a-z0-9\s]/g, "").trim()
normalizeName(x) == trim(SelectSeq(toLowerCase(NameString(x)), KeptInName))
\* s.split(/\s+/).filter(Boolean), as a set
Tokens(s) ==
  LET starts == { i \in 1..Len(s) : ~IsSpace(s[i]) /\ (i = 1 \/ IsSpace(s[i - 1])) }
      end(i) == CHOOSE j \in i..Len(s) :
                  /\ j = Len(s) \/ IsSpace(s[j + 1])
                  /\ \A k \in i..j : ~IsSpace(s[k])
  IN { SubSeq(s, i, end(i)) : i \in starts }
\* Lines 1792-1802 and 1811: the overlap tests between two names
Conflict_exact(s, vn) == s = vn
Conflict(s, vn) == includes(s, vn) \/ includes(vn, s) \/ Tokens(s) \cap Tokens(vn) # {}

\* ---- caption
\* d.assumptions as a list, with the default for a missing one
AssumptionsOr(a, default) ==
  IF a.t = "array" THEN a
  ELSE IF a.t = "string" THEN AssumptionList(a.a)
  ELSE AssumptionList(default)
UserCaption == JSString(<<"u", "s", "e", "r", "_", "c", "a", "p", "t", "i", "o", "n">>)
Vision == JSString(<<"v", "i", "s", "i", "o", "n">>)
CaptionFloor == 900
\* Lines 1682-1696
CaptionDetail(d) ==
  WithNumbers(NumbersOf(d), OrEmptyString(d.item), UserCaption,
              JSNumber(MaxFloor(CaptionFloor,
                                Number(IF Nullish(d.confidence) THEN JSNumber(Fin(CaptionFloor))
                                       ELSE d.confidence))),
              AssumptionsOr(d.assumptions, <<Note("parsed from caption")>>))

MapDetails(f(_), details) ==
  IF details.t = "array"
    THEN [t |-> "array", items |-> [i \in 1..Len(details.items) |-> f(details.items[i])]]
    ELSE details

\* num(x, 0) of a number
NumOfNumber(n) == IF IsFinite(n) THEN n ELSE Fin(0)
RECURSIVE SumNum(_)
SumNum(items) ==
  IF items = <<>> THEN Fin(0)
  ELSE Add(SumNum(SubSeq(items, 1, Len(items) - 1)), NumOfNumber(items[Len(items)].calories.n))

Parsed(type, details, totals) == [type |-> type, details |-> details, totals |-> totals]

\* Lines 1698-1708: the food answer with its details normalized and its totals
CaptionFood(details, totals) ==
  IF Nullish(totals.calories) /\ details.t # "array" THEN null
  ELSE Some(Parsed("food", details,
         [calories |->
            JSNumber(OrZero(IF Nullish(totals.calories) THEN SumNum(details.items)
                            ELSE Number(totals.calories))),
          confidence |->
            IF Nullish(totals.confidence) THEN JSNumber(Fin(950)) ELSE totals.confidence]))

\* Lines 1634-1709: captionParsed, null when there is none
CaptionParse(c) ==
  IF ~c.present \/ c.call = "throws" \/ c.body.kind # "object" THEN null
  ELSE IF c.cls = "workout"
    THEN IF c.body.type = "workout"
           THEN Some(Parsed("workout", c.body.details, c.body.totals))
           ELSE null
  ELSE IF c.body.type # "food" THEN null
  ELSE CaptionFood(MapDetails(CaptionDetail, c.body.details), c.body.totals)

\* ---- vision
\* Lines 1750-1764
VisionDetail(d) ==
  WithNumbers(NumbersOf(d), JSString(IF Nullish(d.item) THEN <<>> ELSE d.item.s),
              IF Nullish(d.source) THEN Vision ELSE d.source,
              JSNumber(Clamp01(d.confidence)),
              AssumptionsOr(d.assumptions, <<>>))

\* Lines 1723-1764: visionParsed with its details normalized
VisionParse(v) ==
  IF v.call = "throws" \/ v.body.kind # "object" \/ v.body.type # "food"
    THEN Parsed("food", EmptyDetails, ZeroTotals)
    ELSE Parsed("food",
                IF v.body.details.t = "array"
                  THEN MapDetails(VisionDetail, v.body.details)
                  ELSE EmptyDetails,
                v.body.totals)

\* ---- merge
\* merged, with where each entry came from
Merged(details, origin) == [details |-> details, origin |-> origin]
From(side, k) == [side |-> side, k |-> k]

\* Lines 1774-1781
RECURSIVE AddCaption(_, _, _)
AddCaption(m, items, k) ==
  IF k > Len(items) THEN m
  ELSE AddCaption(IF normalizeName(items[k].item) = <<>> THEN m
                  ELSE Merged(Append(m.details, items[k]), Append(m.origin, From("caption", k))),
                  items, k + 1)

\* Array.from(new Set(a.concat(b)))
RECURSIVE Dedup(_)
Dedup(a) ==
  IF a = <<>> THEN <<>>
  ELSE LET front == Dedup(SubSeq(a, 1, Len(a) - 1))
           last == a[Len(a)]
       IN IF \E i \in 1..Len(front) : front[i] = last THEN front ELSE Append(front, last)

\* Lines 1809-1820: the notes of the vision item go to the first entry it
\* overlaps with.
Joined(own, notes) == IF notes # <<>> THEN Dedup(own \o notes) ELSE own
\* The distinct characters of a string, given by the parts it is made of:
\* what Array.from(new Set(...)) makes of a string.
Characters(parts) == [text |-> "characters", conf |-> NaN, of |-> parts]
\* A string own value (the caption's workout answer is not normalized) is
\* concatenated as a string: it stays a string when the vision item has no
\* notes and becomes its characters otherwise.
Attached(own, notes, marker) ==
  IF own.t # "string" THEN AssumptionList(Append(Joined(own.a, notes), marker))
  ELSE IF notes = <<>> THEN [t |-> "string", a |-> Append(own.a, marker)]
  ELSE AssumptionList(<<Characters(own.a \o notes), marker>>)
AttachAt(details, v, i) ==
  [details EXCEPT ![i].assumptions =
     Attached(details[i].assumptions, v.assumptions.a, VisionConf(OrZero(v.confidence.n)))]
AttachAmong(details, v, hits) ==
  IF hits = {} THEN details ELSE AttachAt(details, v, FirstOf(hits))
\* the entries whose name overlaps with vn
Overlaps(details, vn) ==
  { i \in 1..Len(details) :
      normalizeName(details[i].item) # <<>>
      /\ Conflict(normalizeName(details[i].item), vn) }
AttachNotes(details, v) == AttachAmong(details, v, Overlaps(details, normalizeName(v.item)))

\* Lines 1784-1822
SeenNames(details) == { normalizeName(details[i].item) : i \in 1..Len(details) }
\* one vision item v, of name vn, at position k
VisionStep(m, v, vn, k) ==
  IF vn = <<>> THEN m
  ELSE IF \E x \in SeenNames(m.details) : Conflict(x, vn)
    THEN Merged(AttachNotes(m.details, v), m.origin)
  ELSE Merged(Append(m.details, v), Append(m.origin, From("vision", k)))
RECURSIVE AddVision(_, _, _)
AddVision(m, items, k) ==
  IF k > Len(items) THEN m
  ELSE AddVision(VisionStep(m, items[k], normalizeName(items[k].item), k), items, k + 1)

\* ---- totals
\* Lines 1825-1831: totalCalories
RECURSIVE SumCalories(_)
SumCalories(items) ==
  IF items = <<>> THEN Fin(0)
  ELSE Add(SumCalories(SubSeq(items, 1, Len(items) - 1)),
           LET c == items[Len(items)].calories
           IN IF Falsy(c) THEN Fin(0) ELSE Number(c))
\* confs
ConfIfAny(x, n) ==
  IF x.t = "number" THEN <<x.n>> ELSE IF n.k # "nan" THEN <<n>> ELSE <<>>
Confs(items) ==
  Concat([i \in DOMAIN items |-> ConfIfAny(items[i].confidence, Number(items[i].confidence))])
RECURSIVE SumOf(_)
SumOf(ns) == IF ns = <<>> THEN Fin(0) ELSE Add(SumOf(SubSeq(ns, 1, Len(ns) - 1)), ns[Len(ns)])

\* Math.round(totalCalories)
TotalCalories_reported(items, cp, vp) ==
  IF cp # null THEN cp[1].totals.calories.n ELSE NumOfNumber(Number(vp.totals.calories))
TotalCalories(items, cp, vp) == MathRound(SumCalories(items))
\* overallConfidence
Average(confs) ==
  IF confs = <<>> THEN JSNull ELSE JSNumber(AverageFixed3(SumOf(confs), Len(confs)))
OverallConfidence(items) == Average(Confs(items))

Response(status, kind, type, details, origin, totals) ==
  [status |-> status, kind |-> kind, type |-> type, details |-> details,
   origin |-> origin, totals |-> totals]
ItemsOf(details) == IF details.t = "array" THEN details.items ELSE <<>>

\* Lines 1609-1855: the response of the handler
CaptionOnly(cp) ==
  IF cp # null
    THEN Response(200, "caption", cp[1].type, ItemsOf(cp[1].details), <<>>, cp[1].totals)
    ELSE Response(400, "error", "", <<>>, <<>>, NoTotals)
CaptionMerged(cp) ==
  IF cp # null THEN AddCaption(Merged(<<>>, <<>>), ItemsOf(cp[1].details), 1)
  ELSE Merged(<<>>, <<>>)
MergedResponse(m, cp, vp) ==
  IF m.details = <<>>
    THEN Response(200, "vision", vp.type, vp.details.items, <<>>, vp.totals)
    ELSE Response(200, "merged", "food", m.details, m.origin,
                  [calories |-> JSNumber(TotalCalories(m.details, cp, vp)),
                   confidence |-> OverallConfidence(m.details)])
WithVision(cp, vp) == MergedResponse(AddVision(CaptionMerged(cp), vp.details.items, 1), cp, vp)
Reconciled(cp, v) == IF ~v.file THEN CaptionOnly(cp) ELSE WithVision(cp, VisionParse(v))
AnalyzeImageWithText(c, v) == Reconciled(CaptionParse(c), v)

Reconcile ==
  /\ captionResp # null /\ visionResp # null /\ result = null
  /\ result' = Some(AnalyzeImageWithText(captionResp[1], visionResp[1]))
  /\ UNCHANGED <<captionResp, visionResp, clsVars, extractVars, energyVars, moreVars>>
  /\ UNCHANGED <<hookVars, taskVars, fetchVars, audioVars>>

InitReconcile ==
  /\ WebhookOff /\ TranscribeIdle /\ ClassifyIdle /\ ExtractIdle /\ EnergyIdle /\ MoreIdle
  /\ captionResp \in { Some(c) : c \in CaptionResps }
  /\ visionResp \in { Some(v) : v \in VisionResps }
  /\ result = null

SpecReconcile == InitReconcile /\ [][Reconcile]_vars

\* ======================================================================
\* num, extractCaloriesFromAnalysis
\* ======================================================================
StripChars == DOMAIN DigitValues \cup {"e", "E", "+", ".", "-"}
KeptInNumber(ch) == ch \in StripChars
\* Lines 962-971: num(x, 0)
FiniteOr0(n) == IF IsFinite(n) THEN n ELSE Fin(0)
num(x) ==
  FiniteOr0(CASE x.t = "number" -> x.n
              [] x.t = "string" -> StringToNumber(SelectSeq(x.s, KeptInNumber))
              [] OTHER -> NaN)

\* totals of a record: absent, or its calories_burned and calories
Totals(present, burned, calories) ==
  [present |-> present, calories_burned |-> burned, calories |-> calories]
AbsentTotals == Totals(FALSE, undefined, undefined)
\* An element of a details list: null, or an object with these fields
EnergyItem(obj, quantity, burned, calories, text) ==
  [obj |-> obj, quantity |-> quantity, calories_burned |-> burned,
   calories |-> calories, calories_text |-> text]
\* analysis.food / analysis.workout
Sub(present, totals, details) == [present |-> present, totals |-> totals, details |-> details]
AbsentSub == Sub(FALSE, AbsentTotals, [t |-> "undefined", items |-> <<>>])
\* The argument: null, a primitive, or an object by the fields that carry
\* numbers or text with digits.
Record(kind, totals, details, food, workout, transcript) ==
  [kind |-> kind, totals |-> totals, details |-> details, food |-> food,
   workout |-> workout, transcript |-> transcript]

EnergyItems ==
  { EnergyItem(TRUE, JSNumber(Fin(1000)), undefined, JSNumber(Fin(100000)), undefined),
    EnergyItem(TRUE, JSNumber(Fin(2000)), undefined, JSNumber(Fin(120000)), undefined),
    \* both keys: calories_burned is read first
    EnergyItem(TRUE, undefined, JSNumber(Fin(80600)), JSNumber(Fin(500000)), undefined),
    \* calories 0: calories_text is read
    EnergyItem(TRUE, undefined, undefined, JSNumber(Fin(0)), JSString(<<"9", "0", " ", "k", "c", "a", "l">>)),
    \* no energy field at all
    EnergyItem(TRUE, JSNumber(Fin(250000)), undefined, undefined, undefined),
    \* a null element
    EnergyItem(FALSE, undefined, undefined, undefined, undefined) }

EnergyTotals ==
  { AbsentTotals,
    Totals(TRUE, undefined, JSNumber(Fin(450000))),
    Totals(TRUE, JSString(<<"3", "0", "0", " ", "k", "c", "a", "l">>), undefined),
    Totals(TRUE, JSNumber(Fin(210400)), JSNumber(Fin(230000))),
    Totals(TRUE, undefined, JSNumber(Fin(0))),
    Totals(TRUE, undefined, JSNumber(Fin(-5000))),
    Totals(TRUE, undefined, JSString(<<"3", "0", "0", " ", "c", "a", "l", "o", "r", "i", "e", "s">>)),
    Totals(TRUE, JSNull, JSString(<<"a", "b", "o", "u", "t", " ", "3", "2", "0", "k", "c", "a", "l">>)) }

EnergyDetails ==
  { [t |-> "undefined", items |-> <<>>], [t |-> "object", items |-> <<>>] }
  \cup { [t |-> "array", items |-> l] : l \in SeqsUpTo(EnergyItems, MaxItems) }

HundredAndHundredTwenty ==
  [t |-> "array",
   items |-> << EnergyItem(TRUE, JSNumber(Fin(1000)), undefined, JSNumber(Fin(100000)), undefined),
                EnergyItem(TRUE, JSNumber(Fin(2000)), undefined, JSNumber(Fin(120000)), undefined) >>]
Subs ==
  { AbsentSub,
    Sub(TRUE, Totals(TRUE, undefined, JSNumber(Fin(600000))), [t |-> "undefined", items |-> <<>>]),
    Sub(TRUE, AbsentTotals, HundredAndHundredTwenty) }

Transcripts ==
  { null,
    Some(<<"r", "a", "n", " ", "4", "5", " ", "m", "i", "n", "u", "t", "e", "s">>),
    \* a backslash before an s, between two digits
    Some(<<"4", "\\", "s", "5">>) }

Records ==
  { Record(k, AbsentTotals, [t |-> "undefined", items |-> <<>>], AbsentSub, AbsentSub, null) :
      k \in {"null", "primitive"} }
  \cup { Record("object", t, d, f, w, x) :
           t \in EnergyTotals, d \in EnergyDetails, f \in Subs, w \in Subs, x \in Transcripts }

\* A field read by the function: its value, and whether its guard skips it.
Field(skip, v) == [skip |-> skip, v |-> v]
\* Lines 984-1001: the fields of one totals object, read in the order keys
TotalsFields(present, t, keys) ==
  [i \in 1..2 |-> Field(~present \/ ~t.present \/ Nullish(t[keys[i]]), t[keys[i]])]
\* the numbers pushed for these fields
TotalsNumbers(fields) ==
  Concat([i \in DOMAIN fields |-> IF fields[i].skip THEN <<>> ELSE <<num(fields[i].v)>>])

\* Lines 1009-1019: the keys loop, then calories_text
ItemFields(it) ==
  << Field(Nullish(it.calories_burned), it.calories_burned),
     Field(Nullish(it.calories), it.calories),
     Field(Falsy(it.calories_text), it.calories_text) >>
RECURSIVE FirstTruthy(_)
FirstTruthy(ns) ==
  IF ns = <<>> THEN Fin(0)
  ELSE IF Truthy(Head(ns)) THEN Head(ns)
  ELSE FirstTruthy(Tail(ns))
\* Lines 1007-1019: what one element adds to the sum
ItemEnergy(it) ==
  IF ~it.obj THEN Fin(0)
  ELSE FirstTruthy([i \in 1..3 |-> IF ItemFields(it)[i].skip THEN Fin(0)
                                    ELSE num(ItemFields(it)[i].v)])

\* Lines 1004-1021: trySumDetails
RECURSIVE SumItems(_)
SumItems(items) ==
  IF items = <<>> THEN Fin(0)
  ELSE Add(SumItems(SubSeq(items, 1, Len(items) - 1)), ItemEnergy(items[Len(items)]))
trySumDetails(arr) == IF arr.t = "array" THEN SumItems(arr.items) ELSE Fin(0)

IsPositive(n) == IsFinite(n) /\ n.v > 0
PushIfPositive(n) == IF IsPositive(n) THEN <<n>> ELSE <<>>
\* Lines 1024-1032: the detail sums that are pushed
DetailSums(arrs) == Concat([i \in DOMAIN arrs |-> PushIfPositive(trySumDetails(arrs[i]))])
\* x && x.details
DetailsOf(sub) == IF sub.present THEN sub.details ELSE [t |-> "undefined", items |-> <<>>]

\* Lines 981-1032: seenNumbers
seenNumbers(a) ==
  TotalsNumbers(TotalsFields(TRUE, a.totals, <<"calories_burned", "calories">>)
                \o TotalsFields(a.workout.present, a.workout.totals,
                                <<"calories_burned", "calories">>)
                \o TotalsFields(a.food.present, a.food.totals,
                                <<"calories", "calories_burned">>))
  \o DetailSums(<<a.details, DetailsOf(a.workout), DetailsOf(a.food)>>)

\* Line 1040: Math.max(...positives)
PickTotal_sum(positives) == SumOf(positives)
PickTotal(positives) ==
  positives[CHOOSE i \in DOMAIN positives : \A j \in DOMAIN positives : positives[j].v <= positives[i].v]

\* ---- JSON.stringify
RECURSIVE IntToString(_)
IntToString(i) ==
  IF i < 10 THEN <<Digits[i + 1]>> ELSE Append(IntToString(i \div 10), Digits[(i % 10) + 1])
\* the decimals of f thousandths, without trailing zeros
FracToString(f) ==
  IF f = 0 THEN <<>>
  ELSE IF f % 100 = 0 THEN <<".", Digits[(f \div 100) + 1]>>
  ELSE IF f % 10 = 0 THEN <<".", Digits[(f \div 100) + 1], Digits[((f \div 10) % 10) + 1]>>
  ELSE <<".", Digits[(f \div 100) + 1], Digits[((f \div 10) % 10) + 1], Digits[(f % 10) + 1]>>
NullWord == <<"n", "u", "l", "l">>
NumberToString(n) ==
  IF ~IsFinite(n) THEN NullWord
  ELSE LET abs == IF n.v < 0 THEN 0 - n.v ELSE n.v
       IN (IF n.v < 0 THEN <<"-">> ELSE <<>>)
          \o IntToString(abs \div Unit) \o FracToString(abs % Unit)
\* a backslash and a quote are written with a backslash before them
EscapeChar(ch) == IF ch \in {"\\", "\""} THEN <<"\\", ch>> ELSE <<ch>>
Escape(str) == Concat([i \in DOMAIN str |-> EscapeChar(str[i])])
Quoted(str) == <<"\"">> \o Escape(str) \o <<"\"">>
\* the text of a value; the strings that occur need no escape
ValueToString(x) ==
  CASE x.t = "number" -> NumberToString(x.n)
    [] x.t = "string" -> Quoted(x.s)
    [] x.t = "boolean" -> (IF Truthy(x.n) THEN <<"t", "r", "u", "e">> ELSE <<"f", "a", "l", "s", "e">>)
    [] x.t = "null" -> NullWord
    [] OTHER -> <<"{", "}">>
RECURSIVE Join(_)
Join(parts) ==
  IF parts = <<>> THEN <<>>
  ELSE IF Len(parts) = 1 THEN parts[1]
  ELSE parts[1] \o <<",">> \o Join(Tail(parts))
\* "key":value, nothing for an undefined value
Member(key, x) == IF x.t = "undefined" THEN <<>> ELSE <<Quoted(key) \o <<":">> \o ValueToString(x)>>
MemberText(key, text) == <<Quoted(key) \o <<":">> \o text>>
Object(members) == <<"{">> \o Join(members) \o <<"}">>
Array(elements) == <<"[">> \o Join(elements) \o <<"]">>

KeyQuantity == <<"q", "u", "a", "n", "t", "i", "t", "y">>
KeyCaloriesBurned == <<"c", "a", "l", "o", "r", "i", "e", "s", "_", "b", "u", "r", "n", "e", "d">>
KeyCalories == <<"c", "a", "l", "o", "r", "i", "e", "s">>
KeyCaloriesText == <<"c", "a", "l", "o", "r", "i", "e", "s", "_", "t", "e", "x", "t">>
KeyTotals == <<"t", "o", "t", "a", "l", "s">>
KeyDetails == <<"d", "e", "t", "a", "i", "l", "s">>
KeyFood == <<"f", "o", "o", "d">>
KeyWorkout == <<"w", "o", "r", "k", "o", "u", "t">>
KeyTranscript == <<"t", "r", "a", "n", "s", "c", "r", "i", "p", "t">>

TotalsToString(t) ==
  Object(Member(KeyCaloriesBurned, t.calories_burned) \o Member(KeyCalories, t.calories))
ItemToString(it) ==
  IF ~it.obj THEN NullWord
  ELSE Object(Member(KeyQuantity, it.quantity) \o Member(KeyCaloriesBurned, it.calories_burned)
              \o Member(KeyCalories, it.calories) \o Member(KeyCaloriesText, it.calories_text))
DetailsMember(d) ==
  IF d.t = "undefined" THEN <<>>
  ELSE IF d.t = "object" THEN MemberText(KeyDetails, <<"{", "}">>)
  ELSE MemberText(KeyDetails, Array([i \in 1..Len(d.items) |-> ItemToString(d.items[i])]))
TotalsMember(t) == IF t.present THEN MemberText(KeyTotals, TotalsToString(t)) ELSE <<>>
SubMember(key, sub) ==
  IF sub.present
    THEN MemberText(key, Object(DetailsMember(sub.details) \o TotalsMember(sub.totals)))
    ELSE <<>>
\* JSON.stringify(analysis) for an object
Stringify(a) ==
  Object(DetailsMember(a.details) \o TotalsMember(a.totals)
         \o SubMember(KeyFood, a.food) \o SubMember(KeyWorkout, a.workout)
         \o (IF a.transcript = null THEN <<>>
             ELSE MemberText(KeyTranscript, Quoted(a.transcript[1]))))

\* ---- the last resort
DigitRunUpTo(s, stop) == IF stop = {} THEN s ELSE SubSeq(s, 1, FirstOf(stop) - 1)
\* the longest prefix of s made of digits
DigitRun(s) == DigitRunUpTo(s, { i \in 1..Len(s) : ~IsDigit(s[i]) })
\* (?:[.,]\d+)? after the digits
Fraction(rest) ==
  IF rest # <<>> /\ Head(rest) \in {".", ","} THEN DigitRun(Tail(rest)) ELSE <<>>
\* String(match[1]).replace(",", ".")
WithFraction(int, frac) == IF frac = <<>> THEN int ELSE int \o <<".">> \o frac
TokenFrom(s, int) == WithFraction(int, Fraction(SubSeq(s, Len(int) + 1, Len(s))))
\* \d{2,5} at the head of s, then the fraction
TokenIn(s, run) == TokenFrom(s, SubSeq(run, 1, Min(Len(run), 5)))
TokenAmong(s, starts) ==
  IF starts = {} THEN null
  ELSE Some(TokenIn(SubSeq(s, FirstOf(starts), Len(s)),
                    DigitRun(SubSeq(s, FirstOf(starts), Len(s)))))
\* Line 1048: the first match of /(\d{2,5}(?:[.,]\d+)?)/, null without one
FirstNumberToken(s) ==
  TokenAmong(s, { i \in 1..(Len(s) - 1) : IsDigit(s[i]) /\ IsDigit(s[i + 1]) })

PositiveOr0(n) == IF IsPositive(n) THEN n ELSE Fin(0)
\* Lines 1049-1052
MatchTotal(match) ==
  IF match = null THEN Fin(0) ELSE PositiveOr0(MathRound(StringToNumber(match[1])))
\* Line 1047: .replace(/\\s+/g, " "), a backslash followed by one or more s
StartsMatch(s, i) == s[i] = "\\" /\ i < Len(s) /\ s[i + 1] = "s"
\* position j holds an s of the run that follows a matched backslash
InMatch(s, j) ==
  s[j] = "s" /\ \E i \in 1..(j - 1) : StartsMatch(s, i) /\ \A k \in (i + 1)..j : s[k] = "s"
NotEmpty(piece) == piece # <<>>
Pieces(s, with) ==
  [j \in 1..Len(s) |-> IF StartsMatch(s, j) THEN with
                        ELSE IF InMatch(s, j) THEN <<>> ELSE <<s[j]>>]
FirstOfEach(pieces) == [k \in 1..Len(pieces) |-> pieces[k][1]]
\* every match replaced by `with`, of one character at most
Replaced(s, with) == FirstOfEach(SelectSeq(Pieces(s, with), NotEmpty))
ReplaceBackslashS(s) == Replaced(s, <<" ">>)
\* Lines 1045-1057
LastResort(a) == MatchTotal(FirstNumberToken(ReplaceBackslashS(Stringify(a))))

\* Lines 1035-1057
Resolved_scan(positives, a) == LastResort(a)
Resolved(positives, a) ==
  IF positives # <<>> THEN MathRound(PickTotal(positives)) ELSE LastResort(a)
\* Lines 974-1058
extractCaloriesFromAnalysis(a) ==
  IF a.kind # "object" THEN Fin(0)
  ELSE Resolved(SelectSeq(seenNumbers(a), IsPositive), a)

ResolveTotalEnergy ==
  /\ record # null /\ kcal = null
  /\ kcal' = Some(extractCaloriesFromAnalysis(record[1]))
  /\ UNCHANGED <<record, totalCalories, clsVars, extractVars, reconcileVars, moreVars>>
  /\ UNCHANGED <<hookVars, taskVars, fetchVars, audioVars>>

\* ---- POST /log-analysis: its own extractCaloriesFromAnalysis (2206-2266)
\* _num is num: `typeof num === "function"` holds for the function of line 962.
PushUnlessNull(x) == IF Nullish(x) THEN <<>> ELSE <<num(x)>>
\* Lines 2218-2229: the candidates of one totals object, first key first
TotalsCandidates(present, t, first, second) ==
  IF ~present \/ ~t.present THEN <<>>
  ELSE PushUnlessNull(t[first]) \o PushUnlessNull(t[second])
OrZeroIf(skip, v) == IF skip THEN Fin(0) ELSE v
FirstNonZero(a, b, c) ==
  IF Truthy(a) THEN a ELSE IF Truthy(b) THEN b ELSE IF Truthy(c) THEN c ELSE Fin(0)
\* Lines 2232-2247: what one element adds
DetailCalories_caloriesFirst(it) ==
  IF ~it.obj THEN Fin(0)
  ELSE FirstNonZero(OrZeroIf(Nullish(it.calories), num(it.calories)),
                    OrZeroIf(Nullish(it.calories_burned), num(it.calories_burned)),
                    OrZeroIf(Falsy(it.calories_text), num(it.calories_text)))
DetailCalories(it) ==
  IF ~it.obj THEN Fin(0)
  ELSE FirstNonZero(OrZeroIf(Nullish(it.calories_burned), num(it.calories_burned)),
                    OrZeroIf(Nullish(it.calories), num(it.calories)),
                    OrZeroIf(Falsy(it.calories_text), num(it.calories_text)))
RECURSIVE ReduceDetails(_, _)
ReduceDetails(s, items) ==
  IF items = <<>> THEN s ELSE ReduceDetails(Add(s, DetailCalories(Head(items))), Tail(items))
\* Lines 2230-2248
sumDetails(arr) == IF arr.t = "array" THEN ReduceDetails(Fin(0), arr.items) ELSE Fin(0)
\* Lines 2217-2254
candidates(a) ==
  TotalsCandidates(TRUE, a.totals, "calories_burned", "calories")
  \o TotalsCandidates(a.workout.present, a.workout.totals, "calories_burned", "calories")
  \o TotalsCandidates(a.food.present, a.food.totals, "calories", "calories_burned")
  \o PushIfPositive(sumDetails(a.details))
  \o PushIfPositive(sumDetails(DetailsOf(a.workout)))
  \o PushIfPositive(sumDetails(DetailsOf(a.food)))
\* Lines 2257-2264: the scan of JSON.stringify(a), as it is
ScanSerialized(a) == MatchTotal(FirstNumberToken(Stringify(a)))
\* Lines 2255-2265
TotalFrom(positives, a) ==
  IF positives # <<>> THEN MathRound(PickTotal(positives)) ELSE ScanSerialized(a)
\* Lines 2206-2268: totalCalories
LogAnalysisTotal(a) ==
  IF a.kind # "object" THEN Fin(0)
  ELSE TotalFrom(SelectSeq(candidates(a), IsPositive), a)

ComputeTotalCalories ==
  /\ record # null /\ totalCalories = null
  /\ totalCalories' = Some(LogAnalysisTotal(record[1]))
  /\ UNCHANGED <<record, kcal, clsVars, extractVars, reconcileVars, moreVars>>
  /\ UNCHANGED <<hookVars, taskVars, fetchVars, audioVars>>

InitEnergy ==
  /\ WebhookOff /\ TranscribeIdle /\ ClassifyIdle /\ ExtractIdle /\ ReconcileIdle /\ MoreIdle
  /\ record \in { Some(a) : a \in Records }
  /\ kcal = null /\ totalCalories = null

EnergyNext == ResolveTotalEnergy \/ ComputeTotalCalories

SpecEnergy == InitEnergy /\ [][EnergyNext]_vars

\* ======================================================================
\* buildReplyForAnalysis called on its own
\* ======================================================================
\* analysis.type as a service may answer it: missing ("none"), the two tags
\* of the schema, and tags outside it.
ReplyTypes == {"none", "food", "workout", "unknown", "meal", "Food"}
ComposeInputs ==
  {null} \cup { Some(Analysis(t, f, w, n)) :
                  t \in ReplyTypes, f \in SubShapes, w \in SubShapes, n \in TranscriptLens }

Compose ==
  /\ composeOut = null
  /\ composeOut' = Some(buildReplyForAnalysis(composeIn))
  /\ UNCHANGED <<composeIn, workoutVars, clsVars, extractVars, reconcileVars, energyVars>>
  /\ UNCHANGED <<hookVars, taskVars, fetchVars, audioVars>>

InitCompose ==
  /\ WebhookOff /\ TranscribeIdle /\ ClassifyIdle /\ ExtractIdle /\ ReconcileIdle /\ EnergyIdle
  /\ WorkoutIdle
  /\ composeIn \in ComposeInputs
  /\ composeOut = null

SpecCompose == InitCompose /\ [][Compose]_vars

\* ======================================================================
\* analyzeAudioWithGPT: the workout record
\* ======================================================================
\* ---- the duration scan of the transcript (lines 702-724)
\* the end of the run of digits that holds position i
RECURSIVE RunEnd(_, _)
RunEnd(s, i) == IF i < Len(s) /\ IsDigit(s[i + 1]) THEN RunEnd(s, i + 1) ELSE i
\* \s*: the first position from j on that holds no white space
RECURSIVE SkipSpaces(_, _)
SkipSpaces(s, j) == IF j <= Len(s) /\ IsSpace(s[j]) THEN SkipSpaces(s, j + 1) ELSE j
LetterAt(s, k, letters) == k <= Len(s) /\ s[k] \in letters

\* A regex match: the captured number and where the scan goes on. What the
\* patterns consume after the unit letter holds no digit, so the scan goes
\* on after the letter.
NoMatch == [hit |-> FALSE, token |-> <<>>, next |-> 0]
Match(token, letterAt) == [hit |-> TRUE, token |-> token, next |-> letterAt + 1]
\* a capture and the position in the transcript where its match starts
Capture(token, at) == [token |-> token, at |-> at]
MatchIfLetter(s, token, k, letters) ==
  IF LetterAt(s, k, letters) THEN Match(token, k) ELSE NoMatch
\* (\d+)\s*<letter> at the run of digits i..e
PlainAt(s, i, e, letters) ==
  MatchIfLetter(s, SubSeq(s, i, e), SkipSpaces(s, e + 1), letters)
\* (\d+[.,]\d+)\s*<letter> at the runs i..e and e+2..e2; the comma is
\* replaced by a dot
FractionAt(s, i, e, e2, letters) ==
  MatchIfLetter(s, SubSeq(s, i, e) \o <<".">> \o SubSeq(s, e + 2, e2),
                SkipSpaces(s, e2 + 1), letters)
\* (\d+(?:[.,]\d+)?)\s*<letter>, or (\d{1,3})\s*<letter> for the looser pattern
MatchAtRun(s, i, e, letters, loose) ==
  IF loose THEN (IF e - i < 3 THEN PlainAt(s, i, e, letters) ELSE NoMatch)
  ELSE IF e + 2 <= Len(s) /\ s[e + 1] \in {".", ","} /\ IsDigit(s[e + 2])
    THEN FractionAt(s, i, e, RunEnd(s, e + 2), letters)
  ELSE PlainAt(s, i, e, letters)
MatchAt(s, i, letters, loose) == MatchAtRun(s, i, RunEnd(s, i), letters, loose)

\* while ((m = regex.exec(transcript)) !== null): the captures, in order
RECURSIVE ScanFrom(_, _, _, _)
RECURSIVE Resume(_, _, _, _, _)
Resume(s, i, letters, loose, m) ==
  IF m.hit THEN <<Capture(m.token, i)>> \o ScanFrom(s, m.next, letters, loose)
  ELSE ScanFrom(s, i + 1, letters, loose)
ScanFrom(s, i, letters, loose) ==
  IF i > Len(s) THEN <<>>
  ELSE IF ~IsDigit(s[i]) THEN ScanFrom(s, i + 1, letters, loose)
  ELSE Resume(s, i, letters, loose, MatchAt(s, i, letters, loose))

MinuteLetters == {"m", "M"}
HourLetters == {"h", "H"}
minuteRegex(transcript) == ScanFrom(transcript, 1, MinuteLetters, FALSE)
hourRegex(transcript) == ScanFrom(transcript, 1, HourLetters, FALSE)
looser(transcript) == ScanFrom(transcript, 1, MinuteLetters, TRUE)

\* A duration found: its minutes, and where in the transcript it was found.
Found(min, at) == [min |-> min, at |-> at]
\* if (Number.isFinite(num)) foundDurations.push(Math.round(num * perUnit))
PushDuration(n, perUnit, at) ==
  IF IsFinite(n) THEN <<Found(MathRound(Fin(n.v * perUnit)), at)>> ELSE <<>>
Pushed(captures, perUnit) ==
  Concat([k \in DOMAIN captures |->
            PushDuration(StringToNumber(captures[k].token), perUnit, captures[k].at)])
\* if (!foundDurations.length): the looser pattern
OrLooser(found, transcript) ==
  IF found # <<>> THEN found ELSE Pushed(looser(transcript), 1)
\* Lines 705-724: the minute matches, then the hour matches
foundDurations(transcript) ==
  OrLooser(Pushed(minuteRegex(transcript), 1) \o Pushed(hourRegex(transcript), 60), transcript)

\* ---- the workout record (lines 617-630 and 693-753)
\* An element of a workout details list, by the fields the code reads.
Activity(duration_min, duration, calories_burned, calories) ==
  [duration_min |-> duration_min, duration |-> duration,
   calories_burned |-> calories_burned, calories |-> calories]
Minutes(n) == JSNumber(Fin(n * Unit))
\* out.workout.details elements of the first answer
PrimaryActivities ==
  { Activity(Minutes(30), undefined, JSNumber(Fin(0)), undefined),
    Activity(Minutes(0), undefined, JSNumber(Fin(200 * Unit)), undefined),
    Activity(undefined, undefined, undefined, undefined) }
\* details elements of the answer of the workout estimator
EstimatorActivities ==
  { Activity(undefined, undefined, JSNumber(Fin(150 * Unit)), undefined),
    Activity(Minutes(0), undefined, JSNumber(Fin(0)), JSString(<<"1", "2", "0">>)),
    Activity(undefined, Minutes(45), JSNumber(Fin(300 * Unit)), undefined) }
\* out.workout of the first answer: its details, its totals.calories_burned
Workouts ==
  { [details |-> d, burned |-> b] :
      d \in { [t |-> "undefined", items |-> <<>>] }
             \cup { [t |-> "array", items |-> l] : l \in SeqsUpTo(PrimaryActivities, MaxItems) },
      b \in { undefined, JSNumber(Fin(0)), JSNumber(Fin(250 * Unit)) } }
\* the estimator: the call raises, or it answers something JSON.parse
\* rejects, or an object
NoEstimate(call, kind) ==
  [call |-> call, kind |-> kind, type |-> "", details |-> [t |-> "undefined", items |-> <<>>],
   burned |-> undefined]
Estimates ==
  { NoEstimate("throws", "none"), NoEstimate("returns", "unparsable"),
    NoEstimate("returns", "object") }
  \cup { [call |-> "returns", kind |-> "object", type |-> "workout",
          details |-> [t |-> "array", items |-> l], burned |-> b] :
           l \in SeqsUpTo(EstimatorActivities, MaxItems),
           b \in { undefined, JSNumber(Fin(400 * Unit)) } }
WorkoutTranscripts ==
  { <<>>,
    <<"y", "o", "g", "a">>,
    <<"r", "a", "n", " ", "3", "0", " ", "m", "i", "n">>,
    <<"1", " ", "h", "o", "u", "r", " ", "r", "u", "n", " ", "2", "0", " ", "m", "i", "n">>,
    <<"0", " ", "m", "i", "n">> }
WorkoutInputs ==
  { [workout |-> w, estimate |-> x, transcript |-> t] :
      w \in Workouts, x \in Estimates, t \in WorkoutTranscripts }

Coalesce(a, b) == IF Nullish(a) THEN b ELSE a
\* n > 0
GreaterThan0(n) == n.k = "inf" \/ (n.k = "fin" /\ n.v > 0)
\* reduce((s, d) => s + (num(d?.calories_burned, 0) || 0), 0)
workoutTotal(items) ==
  SumOf([i \in DOMAIN items |-> OrZero(num(items[i].calories_burned))])
\* reduce((s, d) => s + (Number(d.duration_min) || 0), 0)
totalDur(items) ==
  SumOf([i \in DOMAIN items |-> OrZero(Number(items[i].duration_min))])
\* reduce((s, d) => s + (Number(d.calories_burned) || 0), 0)
sumCaloriesFromDetails(items) ==
  SumOf([i \in DOMAIN items |-> OrZero(Number(items[i].calories_burned))])

\* Lines 617-630: totals.calories_burned after the defensive normalization
RecomputedIf(total, burned) ==
  IF GreaterThan0(total) /\ Falsy(burned) THEN JSNumber(total) ELSE burned
NormalizedBurned(w) ==
  IF w.details.t = "array" THEN RecomputedIf(workoutTotal(w.details.items), w.burned)
  ELSE w.burned

\* Lines 715-722: an element of wOut.details.map
EstimatedActivity(d) ==
  Activity(JSNumber(NumberOr0(Coalesce(d.duration_min, d.duration))), undefined,
           JSNumber(NumberOr0(Coalesce(d.calories_burned, d.calories))), undefined)

\* What is returned for out.workout: details and totals.calories_burned; and,
\* for the record, how far the enrichment went, the details before the
\* back-fill and the durations found.
WorkoutOut(details, burned, step, before, found) ==
  [details |-> details, burned |-> burned, step |-> step, before |-> before, found |-> found]

\* foundDurations[i] ?? foundDurations[foundDurations.length - 1]
DurationFor(found, i) == IF i <= Len(found) THEN found[i].min ELSE found[Len(found)].min
\* details[i].duration_min = Number(dur) || details[i].duration_min || 0
BackfillOne(d, dur) ==
  [d EXCEPT !.duration_min =
     IF Truthy(dur) THEN JSNumber(dur)
     ELSE IF Falsy(d.duration_min) THEN JSNumber(Fin(0))
     ELSE d.duration_min]
Backfilled(items, found) ==
  [i \in DOMAIN items |-> BackfillOne(items[i], DurationFor(found, i))]
\* if (sumCaloriesFromDetails > 0) totals.calories_burned = Math.round(...)
RoundedIf(sum, burned) == IF GreaterThan0(sum) THEN JSNumber(MathRound(sum)) ELSE burned
\* Lines 733-746
WithFound(items, burned, found) ==
  IF found = <<>> THEN WorkoutOut(items, burned, "estimated", items, found)
  ELSE WorkoutOut(Backfilled(items, found),
                  RoundedIf(sumCaloriesFromDetails(Backfilled(items, found)), burned),
                  "backfilled", items, found)
\* Lines 693-700
Backfill(items, burned, transcript) ==
  IF items # <<>> /\ totalDur(items) = Fin(0) /\ trim(transcript) # <<>>
    THEN WithFound(items, burned, foundDurations(transcript))
    ELSE WorkoutOut(items, burned, "estimated", items, <<>>)
\* Lines 660-691
Estimated(items, burned, x, transcript) ==
  Backfill(IF x.details.t = "array" /\ x.details.items # <<>>
             THEN [i \in DOMAIN x.details.items |-> EstimatedActivity(x.details.items[i])]
             ELSE items,
           JSNumber(NumberOr0(Coalesce(x.burned, burned))), transcript)
\* Lines 639-753: the estimator is asked when there are workout details and
\* the total is zero; its answer is used when it is a workout record.
Enriched(w, burned, x, transcript) ==
  IF /\ w.details.t = "array" /\ w.details.items # <<>>
     /\ num(Coalesce(burned, JSNumber(Fin(0)))) = Fin(0)
     /\ x.call = "returns" /\ x.kind = "object" /\ x.type = "workout"
    THEN [Estimated(w.details.items, burned, x, transcript) EXCEPT
            !.details = [t |-> "array", items |-> @]]
    ELSE WorkoutOut(w.details, burned, "answered", w.details.items, <<>>)
\* out.workout of analyzeAudioWithGPT
analyzeAudioWithGPT(in) == Enriched(in.workout, NormalizedBurned(in.workout), in.estimate, in.transcript)

AnalyzeAudioWorkout ==
  /\ workoutIn # null /\ workoutOut = null
  /\ workoutOut' = Some(analyzeAudioWithGPT(workoutIn[1]))
  /\ UNCHANGED <<workoutIn, composeVars, clsVars, extractVars, reconcileVars, energyVars>>
  /\ UNCHANGED <<hookVars, taskVars, fetchVars, audioVars>>

InitWorkout ==
  /\ WebhookOff /\ TranscribeIdle /\ ClassifyIdle /\ ExtractIdle /\ ReconcileIdle /\ EnergyIdle
  /\ ComposeIdle
  /\ workoutIn \in { Some(i) : i \in WorkoutInputs }
  /\ workoutOut = null

SpecWorkout == InitWorkout /\ [][AnalyzeAudioWorkout]_vars

\* ======================================================================
\* Properties
\* ======================================================================
Finished(i) == outcome[i].done
AckCount(s) == Cardinality({ k \in 1..Len(ackLog) : ackLog[k].to = s })
IsComposite(a) == a.food # "absent" \/ a.workout # "absent"
MediaUnavailable == "Failed to download media after retries."

\* C1: once the handler of a delivery that carried messages has returned,
\* every message of the delivery has been taken up and has ended with at
\* least one send attempt (its reply or an apology), whatever stage failed
\* for an earlier message; and until the handler has returned some step can
\* always be taken (each external call returns or raises).
C1_EveryMessageReachesOutcome ==
  /\ (pc = "done" /\ tasks # <<>>) =>
       \A i \in 1..Len(tasks) : i \in started /\ Finished(i) /\ outcome[i].attempted
  /\ pc # "done" => ENABLED Next

\* C1 witness: the first message had a failing stage and the second one
\* still ended with a send attempt.
C1_Witness ==
  /\ pc = "done" /\ Len(tasks) >= 2
  /\ outcome[1].failed /\ Finished(2) /\ outcome[2].attempted

\* C2: messages are processed one at a time in payload order: while a step
\* of message idx runs, every earlier message is finished and no later one
\* has been taken up.
C2_OneAtATimeInPayloadOrder ==
  /\ \A i \in started : \A j \in 1..(i - 1) : j \in started
  /\ InTask =>
       /\ idx \in started /\ ~Finished(idx)
       /\ \A j \in 1..Len(tasks) :
            /\ j < idx => Finished(j)
            /\ j > idx => (j \notin started /\ ~Finished(j))

\* C2 witness: a send of the second message runs after the first message
\* is finished.
C2_Witness == pc = "send" /\ idx = 2 /\ Finished(1)

\* C3: for a delivery with at least one message, 200 has been sent before
\* any message is taken up, and no second or non-200 response is ever sent.
C3_AckBeforeProcessing ==
  /\ (started # {} \/ InTask) => res = <<200>>
  /\ Len(res) <= 1
  /\ (tasks # <<>> /\ res # <<>>) => res = <<200>>

\* C3 witness: the handler returned after a message had a failing stage and
\* the only response is the 200.
C3_Witness ==
  /\ pc = "done" /\ res = <<200>>
  /\ \E i \in 1..Len(tasks) : outcome[i].failed

\* C4: at most one acknowledgement send per sender, exactly one for each
\* sender with a message once the acknowledgement loop is over, and a failed
\* acknowledgement does not keep any message from being processed.
C4_OneAckPerSender ==
  /\ \A s \in Senders : AckCount(s) <= 1
  /\ \A k \in 1..Len(ackLog) : ackLog[k].to \in Senders
  /\ (pc \in {"loop", "done"} \/ InTask) /\ tasks # <<>> =>
       \A s \in Senders :
         AckCount(s) = IF \E i \in 1..Len(tasks) : tasks[i] = s THEN 1 ELSE 0
  /\ (pc = "done" /\ tasks # <<>>) => \A i \in 1..Len(tasks) : Finished(i)

\* C4 witness: two messages of one sender, the acknowledgement failed, and
\* both messages were processed.
C4_Witness ==
  /\ pc = "done" /\ Len(tasks) >= 2 /\ tasks[1] = tasks[2] /\ tasks[1] \in Senders
  /\ Len(ackLog) = 1 /\ ~ackLog[1].ok
  /\ Finished(1) /\ Finished(2)

\* C5: the fallback processAndLogAudio is invoked if and only if the primary
\* analyzeAudioWithGPT raised; it never runs before the primary or after
\* the primary returned a record.
C5_FallbackIffPrimaryRaised ==
  /\ (pc = "aud_fallback" \/ fallback # "none") => primary = "raised"
  /\ primary = "returned" => (fallback = "none" /\ combinedAnalysis # null)
  /\ (primary = "raised" /\ pc \in {"log", "send", "task_end"}) => fallback # "none"

\* C5 witness: the primary raised and the fallback returned the record.
C5_Witness == primary = "raised" /\ fallback = "returned" /\ pc = "task_end"

\* C6: when both audio paths failed, the message ends with exactly one send,
\* the failure notice, nothing was handed to /log-analysis, and the debug
\* file is still there.
C6_BothFailedSingleNotice ==
  (pc = "task_end" /\ primary = "raised" /\ fallback = "raised") =>
     /\ Len(sends) = 1 /\ sends[1].site = "aud_notice"
     /\ logs = <<>>
     /\ debugFile \in {"saved", "none"}

C8_AuthFromSecondAttempt ==
  \A k \in 1..Len(tries) :
    /\ tries[k].n = k - 1
    /\ tries[k].useAuth = (tries[k].n >= 1)

\* C8 witness: three attempts have been made.
C8_Witness == Len(tries) >= 3

\* C9: with maxRetries = N at most N+1 attempts are made, an attempt follows
\* failed attempts only, the bytes are returned at the first 2xx, and the
\* media-unavailable error is thrown exactly when all N+1 attempts failed.
C9_RetryBudget ==
  /\ Len(tries) <= maxRetries + 1
  /\ \A k \in 1..(Len(tries) - 1) : ~tries[k].ok
  /\ fpc = "returned" <=> (tries # <<>> /\ tries[Len(tries)].ok)
  /\ fetchErr = MediaUnavailable =>
       /\ fpc = "thrown" /\ Len(tries) = maxRetries + 1
       /\ \A k \in 1..Len(tries) : ~tries[k].ok
  /\ (Len(tries) = maxRetries + 1 /\ ~tries[Len(tries)].ok /\ fpc \notin {"backoff", "loop"}) =>
       (fpc = "thrown" /\ fetchErr = MediaUnavailable)

\* C9 witness: a budget of at least one retry was used up and the fetch
\* failed.
C9_Witness ==
  /\ maxRetries >= 1 /\ fpc = "thrown" /\ fetchErr = MediaUnavailable
  /\ Len(tries) = maxRetries + 1

\* C10: the wait after failed attempt k (counted from 0) is base * 2^k.
C10_DelayAfterAttemptK ==
  \A j \in 1..Len(delays) : delays[j] = baseDelay * (2 ^ (j - 1))

Ended(c) == tpc[c] \in {"returned", "raised"}
\* The exit paths of a call that got past the write of its raw file.
ExitPaths == {"success", "raw_used", "missing_file", "transcription_failed"}

\* C11: preprocessAudio never raises: when ffmpeg fails it returns the raw
\* path and the raw file is as it was; it returns the cleaned path exactly
\* when ffmpeg succeeded.
C11_PreprocessNeverRaises ==
  \A c \in Calls :
    /\ tpc[c] \in {"check", "whisper"} \/ exit[c].path \in ExitPaths =>
         /\ pre[c].ffmpeg \in {"ok", "failed"}
         /\ pre[c].returned \in OwnPaths(c)
         /\ pre[c].rawKept
    /\ pre[c].ffmpeg = "failed" =>
         /\ pre[c].returned = RawPath(stamp[c])
         /\ exit[c].path \in {"none", "raw_used", "missing_file", "transcription_failed"}
    /\ pre[c].ffmpeg # "none" =>
         (pre[c].returned = CleanedPath(stamp[c]) <=> pre[c].ffmpeg = "ok")

\* C11 witness: ffmpeg failed for a call and the transcription of the raw
\* file returned the text.
C11_Witness ==
  \E c \in Calls :
    /\ pre[c].ffmpeg = "failed" /\ pre[c].returned = RawPath(stamp[c])
    /\ tpc[c] = "returned" /\ exit[c].path = "raw_used"

C13_ClassifierDefaultsToFood ==
  cls # null =>
    LET i == clsIn[1]
        r == cls[1]
        contains == /\ i.content # null
                    /\ \E k \in 0..(Len(i.content[1]) - Len(Workout)) :
                         toLowerCase(SubSeq(i.content[1], k + 1, k + Len(Workout))) = Workout
    IN /\ r.value = (IF r.called /\ i.call = "returns" /\ contains THEN "workout" ELSE "food")
       /\ ~r.raised
       /\ ~r.called => (i.fn = "text" /\ trim(OrEmpty(i.text)) = <<>>)

\* C13 witness: an answer that holds the word in capitals gave "workout".
C13_Witness ==
  /\ cls # null /\ cls[1].value = "workout"
  /\ ~includes(clsIn[1].content[1], Workout)

\* C14: when the inference call returned an answer that does not parse, or
\* whose type is absent or not the expected tag, the text and the image
\* extractor return a record of the expected type with empty details and do
\* not raise.
C14_FallbackOnBadAnswer ==
  (out # null /\ answer[1].call = "returns") =>
    LET a == answer[1]
        r == out[1]
    IN /\ ~r.raised
       /\ r.type = a.cls
       /\ (a.body.kind # "object" \/ a.body.type # a.cls) =>
            (r.details.t = "array" /\ r.details.items = <<>>)

\* C14 witness: an object tagged as food, with details, came back for a
\* workout and the image extractor returned the empty workout record.
C14_Witness ==
  /\ out # null /\ answer[1].fn = "image" /\ answer[1].cls = "workout"
  /\ answer[1].call = "returns" /\ answer[1].body.type = "food"
  /\ answer[1].body.details.items # <<>>
  /\ out[1].type = "workout" /\ out[1].details = EmptyDetails

\* C15: every element of the details of a food record returned by an
\* extractor has quantity, calories, protein, fat and carbs that are finite
\* numbers, 0 or more.
C15_FoodNumbersNonNegative ==
  (out # null /\ ~out[1].raised /\ out[1].type = "food") =>
    \A i \in 1..Len(out[1].details.items) :
      LET d == out[1].details.items[i] IN
        \A x \in {d.quantity, d.calories, d.protein, d.fat, d.carbs} :
          x.t = "number" /\ IsFinite(x.n) /\ x.n.v >= 0

\* The elements of details that the handler read from the answer for the
\* caption (a food answer) and from the answer for the image.
CaptionItems ==
  LET c == captionResp[1] IN
    IF c.present /\ c.call = "returns" /\ c.cls = "food" /\ c.body.kind = "object"
       /\ c.body.type = "food" /\ c.body.details.t = "array"
      THEN c.body.details.items ELSE <<>>
VisionItems ==
  LET v == visionResp[1] IN
    IF v.file /\ v.call = "returns" /\ v.body.kind = "object" /\ v.body.type = "food"
       /\ v.body.details.t = "array"
      THEN v.body.details.items ELSE <<>>
NamesOf(items) == [i \in 1..Len(items) |-> normalizeName(items[i].item)]
\* Two names are equal, one contains the other, or they share a token.
Related(a, b) ==
  \/ a = b
  \/ includes(a, b)
  \/ includes(b, a)
  \/ \E t \in Tokens(a) : t \in Tokens(b)
BananaSmoothie == <<"b", "a", "n", "a", "n", "a", " ", "s", "m", "o", "o", "t", "h", "i", "e">>
Smoothie == <<"s", "m", "o", "o", "t", "h", "i", "e">>
Dal == <<"d", "a", "l">>
Rice == <<"r", "i", "c", "e">>

\* C16: a vision item whose normalized name equals, contains, is contained
\* in or shares a token with the name of an entry already in the merged list
\* is not added; a vision item with a non-empty normalized name and no such
\* relation is added; "banana smoothie" with "smoothie" gives one entry, "dal"
\* with "rice" gives two.
C16_VisionItemAddedUnlessRelated ==
  (result # null /\ result[1].kind \in {"merged", "vision"}) =>
    LET r == result[1]
        merged == IF r.kind = "merged" THEN r.details ELSE <<>>
        name == NamesOf(merged)
        vname == NamesOf(VisionItems)
    IN /\ \A j \in 1..Len(merged) :
            r.origin[j].side = "vision" =>
              /\ name[j] = vname[r.origin[j].k]
              /\ \A i \in 1..(j - 1) : ~Related(name[i], name[j])
       /\ \A k \in 1..Len(vname) :
            LET earlier == { i \in 1..Len(merged) :
                               r.origin[i].side = "caption" \/ r.origin[i].k < k }
                added == { i \in 1..Len(merged) : r.origin[i] = From("vision", k) }
            IN /\ Cardinality(added) <= 1
               /\ added # {} <=>
                    (vname[k] # <<>> /\ \A i \in earlier : ~Related(name[i], vname[k]))
       /\ (NamesOf(CaptionItems) = <<BananaSmoothie>> /\ vname = <<Smoothie>>) =>
            (Len(merged) = 1 /\ name = <<BananaSmoothie>>)
       /\ (NamesOf(CaptionItems) = <<Dal>> /\ vname = <<Rice>>) =>
            (Len(merged) = 2 /\ name = <<Dal, Rice>>)

\* C16 witness: of two vision items one was added after the caption item and
\* the other one, related to an entry, was not.
C16_Witness ==
  /\ result # null /\ result[1].kind = "merged"
  /\ Len(CaptionItems) = 1 /\ Len(VisionItems) = 2
  /\ \A k \in 1..2 : normalizeName(VisionItems[k].item) # <<>>
  /\ Len(result[1].details) = 2
  /\ result[1].origin[1].side = "caption" /\ result[1].origin[2].side = "vision"

\* C17: in the merged record the caption items with a non-empty normalized
\* name come first, in caption order, before every vision item, each with
\* source "user_caption" and a confidence of at least 0.9.
C17_CaptionItemsFirstAndAuthoritative ==
  (result # null /\ result[1].kind = "merged") =>
    LET r == result[1]
        capIdx == { k \in 1..Len(CaptionItems) : normalizeName(CaptionItems[k].item) # <<>> }
        n == Cardinality(capIdx)
    IN (captionResp[1].cls = "food") =>
         /\ \A i \in 1..Len(r.details) : (i <= n <=> r.origin[i].side = "caption")
         /\ { r.origin[i].k : i \in 1..n } = capIdx
         /\ \A i, j \in 1..n : i < j => r.origin[i].k < r.origin[j].k
         /\ \A i \in 1..n :
              /\ r.details[i].source = UserCaption
              /\ r.details[i].confidence.t = "number"
              /\ r.details[i].confidence.n.k \in {"fin", "inf"}
              /\ IsFinite(r.details[i].confidence.n) => r.details[i].confidence.n.v >= CaptionFloor

\* C18: every confidence of the merged record is a number in [0,1]: the
\* confidence of each entry and the confidence of the totals, which is null
\* when no entry has a numeric confidence.
C18_ConfidencesInUnitInterval ==
  (result # null /\ result[1].kind = "merged") =>
    LET r == result[1]
        InUnit(x) == x.t = "number" /\ IsFinite(x.n) /\ x.n.v >= 0 /\ x.n.v <= Unit
    IN /\ \A i \in 1..Len(r.details) : InUnit(r.details[i].confidence)
       /\ r.totals.confidence = JSNull \/ InUnit(r.totals.confidence)

\* C19: the calories of the totals of the merged record are the rounded sum
\* of the calories of the entries of the merged list, whatever totals the
\* answers reported; a vision item that was not added counts for nothing.
C19_TotalsAreSumOfMerged ==
  (result # null /\ result[1].kind = "merged") =>
    LET r == result[1]
        cal(i) == LET c == r.details[i].calories
                  IN IF c.t = "number" THEN c.n ELSE IF Falsy(c) THEN Fin(0) ELSE Number(c)
        sum[i \in 0..Len(r.details)] == IF i = 0 THEN Fin(0) ELSE Add(sum[i - 1], cal(i))
        total == sum[Len(r.details)]
    IN /\ r.totals.calories.t = "number"
       /\ IF IsFinite(total)
            THEN LET t == r.totals.calories.n IN
                   /\ IsFinite(t) /\ t.v % Unit = 0
                   /\ 2 * t.v <= 2 * total.v + Unit
                   /\ 2 * total.v + Unit < 2 * (t.v + Unit)
            ELSE r.totals.calories.n = total
       /\ (NamesOf(CaptionItems) = <<BananaSmoothie>> /\ NamesOf(VisionItems) = <<Smoothie>>) =>
            r.totals.calories.n = Fin(180 * Unit)

\* C19 witness: the answers reported totals of 999, a vision item with
\* calories was not added, and the totals are those of the two entries.
C19_Witness ==
  /\ result # null /\ result[1].kind = "merged"
  /\ captionResp[1].body.totals.calories # undefined
  /\ visionResp[1].body.totals.calories # undefined
  /\ Len(VisionItems) = 2 /\ Len(result[1].details) = 2
  /\ \A k \in 1..2 : normalizeName(VisionItems[k].item) # <<>>
  /\ result[1].origin[2].side = "vision"
  /\ result[1].totals.calories.n # Fin(999 * Unit)

\* the record { totals: { calories: 450 }, details: [ { calories: 100 }, { calories: 120 } ] }
ExampleRecord ==
  Record("object", Totals(TRUE, undefined, JSNumber(Fin(450 * Unit))),
         HundredAndHundredTwenty, AbsentSub, AbsentSub, null)

\* C20: when a record has a positive candidate among its totals, its nested
\* totals and its detail sums, the result is the largest positive candidate,
\* rounded, and not the sum of the candidates; the record with totals 450
\* and details of 100 and 120 gives 450.
C20_MaxOfPositiveCandidates ==
  kcal # null =>
    LET seen == seenNumbers(record[1])
        positives == { seen[i] : i \in { j \in DOMAIN seen : IsFinite(seen[j]) /\ seen[j].v > 0 } }
        r == kcal[1]
    IN /\ (record[1].kind = "object" /\ positives # {}) =>
            /\ IsFinite(r) /\ r.v % Unit = 0
            /\ \E p \in positives :
                 /\ \A q \in positives : q.v <= p.v
                 /\ 2 * r.v <= 2 * p.v + Unit /\ 2 * p.v + Unit < 2 * (r.v + Unit)
       /\ record[1] = ExampleRecord => r = Fin(450 * Unit)

\* C20 witness: the example record was resolved to 450, with the detail sum
\* of 220 as the other candidate.
C20_Witness ==
  /\ kcal # null /\ record[1] = ExampleRecord
  /\ seenNumbers(record[1]) = <<Fin(450 * Unit), Fin(220 * Unit)>>
  /\ kcal[1] = Fin(450 * Unit)

\* C21: the reply composer returns the fixed apology for every input whose
\* type is missing or is neither "food" nor "workout", and never formats such
\* an input as a food or a workout reply.
C21_ApologyForUnknownType ==
  (composeOut # null
   /\ (composeIn = null \/ composeIn[1].type \notin {"food", "workout"}))
    => composeOut[1] = "Sorry, I couldn't understand that."

\* The sends that carry the final reply of a message.
ReplySites == {"img_reply", "aud_reply", "txt_reply", "int_reply"}

\* C22: when the send of a message's final reply fails, no further send is
\* attempted for that message.
C22_NoSendAfterFailedReply ==
  \A k \in 1..Len(sends) :
    (sends[k].site \in ReplySites /\ ~sends[k].ok) => k = Len(sends)

\* The send the text branch makes where the interactive branch makes s.
AsText(s) == IF s = "int_reply" THEN "txt_reply" ELSE s
\* The k-th send of a text message without keyword whose steps end as the
\* steps of the current message did: the reply when the analysis and its
\* logging went through, else the send of the catch block; after a failed
\* send, the send of the catch block around it.
RECURSIVE TextReplay(_)
TextReplay(k) ==
  IF k = 1
    THEN (IF sends[1].site \in ReplySites THEN ReplySite("analyze_text")
          ELSE OnCallFail("analyze_text"))
    ELSE OnSendFail(TextReplay(k - 1))

\* C23: an interactive message with selection label L is handled as a text
\* message with body L: the same steps, and the same reply when a step fails.
C23_InteractiveAsText ==
  (message.kind = "interactive" /\ message.title # "") =>
     /\ branch \in {"none", "interactive"} => TextRoute(message.body) = "analyze_text"
     /\ \A k \in 1..Len(sends) : AsText(sends[k].site) = TextReplay(k)

\* the number of minutes or of kilocalories a field stands for
FieldNumber(x) == OrZero(Number(x))

\* C24: in every workout record returned, each activity with duration_min
\* greater than 0 has calories_burned greater than 0, whatever the inference
\* service answered.
C24_PositiveDurationHasCalories ==
  workoutOut # null =>
    \A i \in DOMAIN workoutOut[1].details.items :
      GreaterThan0(FieldNumber(workoutOut[1].details.items[i].duration_min))
        => GreaterThan0(FieldNumber(workoutOut[1].details.items[i].calories_burned))

\* C26: the back-fill is entered only when the details are non-empty and all
\* their durations are zero; the durations found are in the order in which
\* they occur in the transcript; activity k receives the k-th one, the last
\* one being reused; no duration is left lower than it was.
C26_BackfillInTranscriptOrder ==
  (workoutOut # null /\ workoutOut[1].step = "backfilled") =>
    LET o == workoutOut[1] IN
      /\ o.before # <<>>
      /\ \A i \in DOMAIN o.before : FieldNumber(o.before[i].duration_min) = Fin(0)
      /\ \A j \in 1..(Len(o.found) - 1) : o.found[j].at < o.found[j + 1].at
      /\ \A k \in DOMAIN o.details.items :
           /\ FieldNumber(o.details.items[k].duration_min)
                = o.found[Min(k, Len(o.found))].min
           /\ FieldNumber(o.details.items[k].duration_min).v
                >= FieldNumber(o.before[k].duration_min).v

\* The entries of the two parsed answers, as they enter the merge.
MergeCaptionItems ==
  LET cp == CaptionParse(captionResp[1]) IN IF cp = null THEN <<>> ELSE ItemsOf(cp[1].details)
MergeVisionItems == VisionParse(visionResp[1]).details.items
EnteredAs(o) == IF o.side = "caption" THEN MergeCaptionItems[o.k] ELSE MergeVisionItems[o.k]
\* The vision items found in conflict whose first related entry is entry j.
ConflictsAt(r, j) ==
  { k \in 1..Len(MergeVisionItems) :
      LET vn == normalizeName(MergeVisionItems[k].item)
          earlier == { i \in 1..Len(r.details) :
                         r.origin[i].side = "caption" \/ r.origin[i].k < k }
          hits == { i \in earlier : Related(normalizeName(r.details[i].item), vn) }
      IN /\ vn # <<>>
         /\ \A i \in 1..Len(r.details) : r.origin[i] # From("vision", k)
         /\ hits # {} /\ j = FirstOf(hits) }
\* The list after appending the notes and the marker of each of the items ks, in order.
RECURSIVE AppendedTo(_, _)
AppendedTo(list, ks) ==
  IF ks = {} THEN list
  ELSE LET k == FirstOf(ks)
           v == MergeVisionItems[k]
       IN AppendedTo(Append(list \o v.assumptions.a, VisionConf(OrZero(v.confidence.n))),
                     ks \ {k})
\* C25: for every vision item found in conflict exactly one entry of the
\* merged list, the first one whose normalized name is related to it, has the
\* assumptions of the vision item and one vision_conf marker appended to its
\* assumption list; nothing else of that entry and no other entry changes.
C25_ConflictAttachesToFirstMatch ==
  (result # null /\ result[1].kind = "merged") =>
    LET r == result[1] IN
      /\ \A k \in 1..Len(MergeVisionItems) :
           (normalizeName(MergeVisionItems[k].item) # <<>>
            /\ \A i \in 1..Len(r.details) : r.origin[i] # From("vision", k))
             => Cardinality({ j \in 1..Len(r.details) : k \in ConflictsAt(r, j) }) = 1
      /\ \A j \in 1..Len(r.details) :
           LET was == EnteredAs(r.origin[j])
           IN IF ConflictsAt(r, j) = {} THEN r.details[j] = was
              ELSE r.details[j] =
                     [was EXCEPT !.assumptions =
                        AssumptionList(AppendedTo(was.assumptions.a, ConflictsAt(r, j)))]

\* C27: an audio message that was analysed, by the primary path or by the
\* fallback path, is handed to /log-analysis at most once.
C27_AudioLoggedAtMostOnce ==
  (branch = "audio" /\ combinedAnalysis # null) => Len(logs) <= 1

\* A call of transcribeAudioWithWhisper between its first line and its return.
Running(c) == tpc[c] \in {"preprocess", "check", "whisper"}
\* C28: two transcriptions whose executions overlap never use the same
\* temporary file paths, so none writes over or unlinks a file of the other.
C28_OverlappingCallsUseOwnPaths ==
  \A c, d \in Calls : (c # d /\ Running(c) /\ Running(d)) => OwnPaths(c) \cap OwnPaths(d) = {}

\* A record with the same energy fields: another transcript and no quantity
\* in any element.
WithoutQuantity(d) ==
  [d EXCEPT !.items = [i \in DOMAIN d.items |-> [d.items[i] EXCEPT !.quantity = undefined]]]
SameEnergyFields(a, x) ==
  [a EXCEPT !.transcript = x,
            !.details = WithoutQuantity(@),
            !.food.details = WithoutQuantity(@),
            !.workout.details = WithoutQuantity(@)]
Variants(a) ==
  IF a.kind # "object" THEN {a} ELSE { SameEnergyFields(a, x) : x \in Transcripts }
\* Every energy field of the record is absent, null or 0.
ZeroOrAbsent(x) == Nullish(x) \/ (x.t = "number" /\ x.n = Fin(0))
ZeroTotalsOf(t) == ZeroOrAbsent(t.calories_burned) /\ ZeroOrAbsent(t.calories)
ZeroDetails(d) ==
  \A i \in DOMAIN d.items :
    /\ ZeroOrAbsent(d.items[i].calories_burned)
    /\ ZeroOrAbsent(d.items[i].calories)
    /\ ZeroOrAbsent(d.items[i].calories_text)
AllZeroOrAbsent(a) ==
  /\ ZeroTotalsOf(a.totals) /\ ZeroDetails(a.details)
  /\ ZeroTotalsOf(a.food.totals) /\ ZeroDetails(a.food.details)
  /\ ZeroTotalsOf(a.workout.totals) /\ ZeroDetails(a.workout.details)
\* C29: the total resolved for a record depends only on its energy fields
\* (calories, calories_burned and calories_text in totals and details): a
\* record with the same energy fields and another quantity or transcript
\* resolves to the same total, and a record whose energy fields are all zero
\* or absent resolves to 0.
C29_DependsOnlyOnEnergyFields ==
  kcal # null =>
    /\ \A b \in Variants(record[1]) : extractCaloriesFromAnalysis(b) = kcal[1]
    /\ AllZeroOrAbsent(record[1]) => kcal[1] = Fin(0)

\* Two digits in a row somewhere in the text.
TwoDigits(text) == \E i \in 1..(Len(text) - 1) : IsDigit(text[i]) /\ IsDigit(text[i + 1])
HasPositive(a) == a.kind = "object" /\ SelectSeq(seenNumbers(a), IsPositive) # <<>>
\* C29, amended: when an energy field of the record gives a positive
\* candidate, the total depends only on the energy fields; a record whose
\* energy fields are all zero or absent resolves to 0 when its serialized
\* form holds no two digits in a row.
C29_EnergyFieldsDecideWhenPositive ==
  kcal # null =>
    /\ HasPositive(record[1]) =>
         \A b \in Variants(record[1]) : extractCaloriesFromAnalysis(b) = kcal[1]
    /\ (AllZeroOrAbsent(record[1])
        /\ (record[1].kind = "object" => ~TwoDigits(Stringify(record[1]))))
         => kcal[1] = Fin(0)
\* C29 witness: a record with a positive candidate, a quantity and a
\* transcript with digits has been resolved to a positive total.
C29_Witness ==
  /\ kcal # null /\ HasPositive(record[1]) /\ record[1].transcript # null
  /\ record[1].details.items # <<>>
  /\ \E i \in DOMAIN record[1].details.items : ~Nullish(record[1].details.items[i].quantity)
  /\ IsPositive(kcal[1])

\* C30: the resolver of the module and the copy inside the /log-analysis
\* handler return the same value for every record.
C30_BothResolversAgree ==
  (kcal # null /\ totalCalories # null) => kcal[1] = totalCalories[1]
\* C30 witness: both have resolved a record without a positive candidate
\* whose serialized form holds a backslash before an s, where only the
\* resolver of the module rewrites the text before the scan.
C30_Witness ==
  /\ kcal # null /\ totalCalories # null
  /\ record[1].kind = "object" /\ ~HasPositive(record[1])
  /\ ReplaceBackslashS(Stringify(record[1])) # Stringify(record[1])

====
